---- MODULE Spec2Model ----
(***************************************************************************)
(* The authentication back end of Advance_MERN_Auth: the User collection,  *)
(* the auth controllers (signup, verifyEmail, login, logout,               *)
(* forgotPassword, resetPassword, checkAuth), the verifyToken middleware   *)
(* and generateTokenAndCookies.                                            *)
(*                                                                         *)
(* Every controller is an async function.  A request runs from one await   *)
(* of a store operation or of the mail client to the next; between two     *)
(* awaits of one request the steps of other requests and the clock may     *)
(* interleave.  One action of the model is one such run: the store         *)
(* operation that completes, and all synchronous code (and the bcrypt      *)
(* call) up to the next store or mail operation or to the response.        *)
(***************************************************************************)
EXTENDS Integers, Sequences, FiniteSets, TLC

VARIABLES
    users,          \* the User collection: the documents in insertion order, _id = position
    req,            \* the requests in flight, one per slot
    resp,           \* the response sent by the last step (NoResp when it sent none)
    jar,            \* the session tokens handed to clients in Set-Cookie headers
    now,            \* Date.now(), milliseconds
    nreq,           \* requests received so far
    consumed,       \* verification codes a successful verifyEmail has cleared
    failedVerify,   \* verifyEmail requests answered 400 so far
    spent,          \* reset tokens a resetPassword has cleared and no forgotPassword stored since
    pwReset,        \* per record, the last password replacement: what authenticated before, what was set
    issued,         \* the session tokens handed out, each with the email of the request it answered
    store,          \* the state of useAuthStore in the browser
    codeState       \* the code state of VerifyEmailPage: its six boxes

vars == <<users, req, resp, jar, now, nreq, consumed, failedVerify, spent, pwReset, issued,
          store, codeState>>

---------------------------------------------------------------------------
(* Bounds of the model *)

MaxReqs == 2

Slots == {"r1", "r2"}
SlotOrder == [r \in Slots |-> IF r = "r1" THEN 1 ELSE 2]

Emails == {"a@x.com", "b@x.com"}
Passwords == {"Secret1!", "NewPass1!"}
Names == {"Ann"}
Codes == {"111111", "222222"}
ResetTokens == {"aa11", "bb22"}

---------------------------------------------------------------------------
(* Program constants *)

VerificationTTL == 3600000
ResetTTL == 3600000
CookieMaxAge == 3600000
JwtExpiresIn == 604800
BcryptCost == 10

\* the instants the clock is read at: the start, one hour and seven days later
Times == {0, VerificationTTL, JwtExpiresIn * 1000}

---------------------------------------------------------------------------
(* Optional values: undefined is the empty tuple, a value v is <<v>>. *)

Absent == <<>>
Some(v) == <<v>>
Opt(S) == {Absent} \cup {Some(v) : v \in S}

---------------------------------------------------------------------------
(* bcryptjs.  The digest stands for the one-way image of (salt, password). *)

\* faulty variant: the password is stored as it was supplied
bcryptHash_Plain(password, cost) ==
    [alg |-> "plain", cost |-> 0, digest |-> password]

bcryptHash(password, cost) ==
    [alg |-> "bcrypt", cost |-> cost, digest |-> password]

\* faulty variant: every password is accepted
bcryptCompare_AcceptsAll(password, hash) == hash.alg = "bcrypt"

bcryptCompare(password, hash) ==
    hash.alg = "bcrypt" /\ hash.digest = password

---------------------------------------------------------------------------
(* jsonwebtoken.  iat and exp are in seconds. *)

NoToken == [id |-> 0, iat |-> 0, exp |-> 0, sig |-> "none"]
ForgedToken == [id |-> 1, iat |-> 0, exp |-> JwtExpiresIn, sig |-> "bad"]

\* faulty variant: the token expires with the cookie's maxAge
jwtSign_OneHour(userId, t) ==
    [id |-> userId, iat |-> t \div 1000,
     exp |-> (t \div 1000) + (CookieMaxAge \div 1000), sig |-> "good"]

jwtSign(userId, t) ==
    [id |-> userId, iat |-> t \div 1000, exp |-> (t \div 1000) + JwtExpiresIn,
     sig |-> "good"]

\* "ok", or the error jwt.verify throws
jwtVerify(token, t) ==
    IF token.sig # "good" THEN "JsonWebTokenError"
    ELSE IF (t \div 1000) >= token.exp THEN "TokenExpiredError"
    ELSE "ok"

---------------------------------------------------------------------------
(* The User model *)

NoHash == [alg |-> "none", cost |-> 0, digest |-> ""]

\* a document no request has loaded or built
NoDoc ==
    [email |-> "", password |-> NoHash, name |-> "", lastlogin |-> 0,
     isVerified |-> FALSE,
     resetPasswordToken |-> Absent, resetPasswordExpireAt |-> Absent,
     verificationToken |-> Absent, verificationTokenExpireAt |-> Absent,
     createdAt |-> 0, updatedAt |-> 0]

\* new User({...}): lastlogin and isVerified take the schema's defaults, and
\* { timestamps: true } stamps createdAt and updatedAt when the document is saved
userSchema(email, password, name, verificationToken, verificationTokenExpireAt, t) ==
    [email |-> email, password |-> password, name |-> name,
     lastlogin |-> t, isVerified |-> FALSE,
     resetPasswordToken |-> Absent, resetPasswordExpireAt |-> Absent,
     verificationToken |-> Some(verificationToken),
     verificationTokenExpireAt |-> Some(verificationTokenExpireAt),
     createdAt |-> t, updatedAt |-> t]

Ids == 1..Len(users)

\* faulty variant: a date equal to t passes
Gt_OrEqual(date, t) == date # Absent /\ date[1] >= t

\* { $gt: t } on an optional date
Gt(date, t) == date # Absent /\ date[1] > t

\* faulty variant: the lookup compares another field and never finds the record
findByEmail_WrongField(email) == {i \in Ids : users[i].name = email}

\* User.findOne({ email }): the ids it may return
findByEmail(email) == {i \in Ids : users[i].email = email}

\* faulty variant: the query leaves out the expiry condition
findByVerificationToken_IgnoresExpiry(code, t) ==
    {i \in Ids : users[i].verificationToken = code}

\* faulty variant: any stored expiry passes, ahead or not
findByVerificationToken_AnyExpiry(code, t) ==
    {i \in Ids : /\ users[i].verificationToken = code
                 /\ users[i].verificationTokenExpireAt # Absent}

\* User.findOne({ verificationToken: code, verificationTokenExpireAt: { $gt: t } })
findByVerificationToken(code, t) ==
    {i \in Ids : /\ users[i].verificationToken = code
                 /\ Gt(users[i].verificationTokenExpireAt, t)}

\* User.findOne({ resetPasswordToken: token, resetPasswordExpireAt: { $gt: t } })
findByResetToken(token, t) ==
    {i \in Ids : /\ users[i].resetPasswordToken = token
                 /\ Gt(users[i].resetPasswordExpireAt, t)}

\* faulty variant: the schema declares email without unique: true
duplicateKey_NoIndex(email) == FALSE

\* the unique index on email: whether inserting a document with this email is rejected
duplicateKey(email) == \E i \in Ids : users[i].email = email

\* faulty variant: save() writes the whole document as the handler holds it
Merge_WholeDocument(old, doc, paths) == doc

\* document.save() of a loaded document: $set / $unset of the modified paths
Merge(old, doc, paths) ==
    [email |-> IF "email" \in paths THEN doc.email ELSE old.email,
     password |-> IF "password" \in paths THEN doc.password ELSE old.password,
     name |-> IF "name" \in paths THEN doc.name ELSE old.name,
     lastlogin |-> IF "lastlogin" \in paths THEN doc.lastlogin ELSE old.lastlogin,
     isVerified |-> IF "isVerified" \in paths THEN doc.isVerified ELSE old.isVerified,
     resetPasswordToken |->
        IF "resetPasswordToken" \in paths THEN doc.resetPasswordToken
        ELSE old.resetPasswordToken,
     resetPasswordExpireAt |->
        IF "resetPasswordExpireAt" \in paths THEN doc.resetPasswordExpireAt
        ELSE old.resetPasswordExpireAt,
     verificationToken |->
        IF "verificationToken" \in paths THEN doc.verificationToken
        ELSE old.verificationToken,
     verificationTokenExpireAt |->
        IF "verificationTokenExpireAt" \in paths THEN doc.verificationTokenExpireAt
        ELSE old.verificationTokenExpireAt,
     createdAt |-> IF "createdAt" \in paths THEN doc.createdAt ELSE old.createdAt,
     updatedAt |-> IF "updatedAt" \in paths THEN doc.updatedAt ELSE old.updatedAt]

\* the paths a handler assigned whose value differs from the loaded one: an
\* assignment of an equal value does not mark the path modified
modifiedPaths(loaded, doc, assigned) ==
    {f \in assigned : doc[f] # loaded[f]}

\* faulty variant: the schema is declared without { timestamps: true }
timestamps_Off(doc, paths, t) == [doc |-> doc, paths |-> paths]

\* { timestamps: true } on save() of a loaded document: when a path is modified
\* updatedAt is set to the time of the call and written with the other paths
timestamps(doc, paths, t) ==
    IF paths = {} THEN [doc |-> doc, paths |-> paths]
    ELSE [doc |-> [doc EXCEPT !.updatedAt = t], paths |-> paths \cup {"updatedAt"}]

updateOne(id, doc, paths) ==
    [users EXCEPT ![id] = Merge(users[id], doc, paths)]

\* faulty variant: the projection is left out
selectNoPassword_Whole(u) == u

\* .select("-password")
selectNoPassword(u) ==
    [email |-> u.email, name |-> u.name, lastlogin |-> u.lastlogin,
     isVerified |-> u.isVerified,
     resetPasswordToken |-> u.resetPasswordToken,
     resetPasswordExpireAt |-> u.resetPasswordExpireAt,
     verificationToken |-> u.verificationToken,
     verificationTokenExpireAt |-> u.verificationTokenExpireAt,
     createdAt |-> u.createdAt, updatedAt |-> u.updatedAt]

---------------------------------------------------------------------------
(* Cookies and mail *)

NoCookie == [op |-> "none", token |-> NoToken, maxAge |-> 0]

\* faulty variant: the token is signed for the first record, whoever asked
generateTokenAndCookies_FirstUser(userId, t) ==
    [op |-> "set", token |-> jwtSign(1, t), maxAge |-> CookieMaxAge]

\* jwt.sign({ id: userId }, secret, { expiresIn: "7d" }); res.cookie("token", token, ...)
generateTokenAndCookies(userId, t) ==
    [op |-> "set", token |-> jwtSign(userId, t), maxAge |-> CookieMaxAge]

\* faulty variant: the response carries no Set-Cookie header
clearCookie_Noop == [op |-> "none", token |-> NoToken, maxAge |-> 0]

\* res.clearCookie("token")
clearCookie == [op |-> "clear", token |-> NoToken, maxAge |-> 0]

\* the token cookie a client holds after a response: res.cookie replaces it,
\* res.clearCookie removes it, a response that sets none leaves it
cookieAfter(held, setCookie) ==
    IF setCookie.op = "set" THEN Some(setCookie.token)
    ELSE IF setCookie.op = "clear" THEN Absent
    ELSE held

NoMail == [type |-> "none", to |-> "", payload |-> "", delivered |-> FALSE,
           threw |-> FALSE]

\* The senders: what was asked of client.send, whether it was delivered, and
\* whether the sender threw to its caller.  Each sender catches and logs what
\* client.send throws, so delivered or not it returns normally.
sendVerificationEmail(email, verificationToken, delivered) ==
    [type |-> "verification", to |-> email, payload |-> verificationToken,
     delivered |-> delivered, threw |-> FALSE]

sendWelcomeEmail(email, name, delivered) ==
    [type |-> "welcome", to |-> email, payload |-> name, delivered |-> delivered,
     threw |-> FALSE]

\* faulty variant: the sender lets the error of client.send escape
sendPasswordResetEmail_Rethrows(email, resetLink, delivered) ==
    [type |-> "reset", to |-> email, payload |-> resetLink, delivered |-> delivered,
     threw |-> ~delivered]

sendPasswordResetEmail(email, resetLink, delivered) ==
    [type |-> "reset", to |-> email, payload |-> resetLink, delivered |-> delivered,
     threw |-> FALSE]

sendPasswordResetConfirmationEmail(email, delivered) ==
    [type |-> "resetConfirmation", to |-> email, payload |-> "", delivered |-> delivered,
     threw |-> FALSE]

---------------------------------------------------------------------------
(* Requests and responses *)

\* req.body, req.params and req.cookies
NoIn == [email |-> Absent, password |-> Absent, name |-> Absent,
         code |-> Absent, token |-> Absent, cookie |-> Absent]

\* what held in the store when the request looked (read by the properties only)
NoPre == [existed |-> FALSE, missing |-> FALSE, dup |-> FALSE, holders |-> {},
          reasons |-> {}, tokenState |-> "none", prevLogin |-> 0,
          failedBefore |-> 0, mismatch |-> FALSE, afterReset |-> "none",
          spent |-> FALSE, at |-> 0, err |-> "none", threw |-> FALSE,
          expired |-> {}, after |-> "none"]

IdleReq == [kind |-> "none", pc |-> "idle", id |-> 0, doc |-> NoDoc, paths |-> {},
            cookie |-> NoCookie, in |-> NoIn, pre |-> NoPre]

NoResp == [kind |-> "none", status |-> 0, message |-> "", cookie |-> NoCookie,
           mail |-> NoMail, user |-> Absent, id |-> 0, in |-> NoIn, pre |-> NoPre]

Response(kind, status, message, cookie, mail, user, id, in, pre) ==
    [kind |-> kind, status |-> status, message |-> message, cookie |-> cookie,
     mail |-> mail, user |-> user, id |-> id, in |-> in, pre |-> pre]

\* res.status(..).json(..): the request is over, the client keeps a cookie that was set
Respond(s, r) ==
    /\ resp' = r
    /\ req' = [req EXCEPT ![s] = IdleReq]
    /\ jar' = IF r.cookie.op = "set" THEN jar \cup {r.cookie.token} ELSE jar
    /\ issued' = IF r.cookie.op = "set"
                 THEN issued \cup {[token |-> r.cookie.token, email |-> r.in.email[1],
                                     at |-> r.pre.at]}
                 ELSE issued
    /\ UNCHANGED <<store, codeState>>

\* faulty variant: what a handler without try/catch does when an await rejects: the
\* exception leaves the handler and nothing is sent
Catch_Escapes(s, r) ==
    /\ resp' = NoResp
    /\ req' = [req EXCEPT ![s] = IdleReq]
    /\ UNCHANGED <<jar, issued, store, codeState>>

\* } catch (error) { res.status(500).json({ message, error }) }
Catch(s, r) == Respond(s, [r EXCEPT !.pre.threw = TRUE])

\* the handler goes on to its next await
Await(s, r) ==
    /\ req' = [req EXCEPT ![s] = r]
    /\ resp' = NoResp
    /\ UNCHANGED <<jar, issued, store, codeState>>

\* a new request takes the first free slot (the slots are interchangeable)
Accept(s) ==
    /\ req[s].pc = "idle"
    /\ \A r \in Slots : SlotOrder[r] < SlotOrder[s] => req[r].pc # "idle"
    /\ nreq < MaxReqs
    /\ nreq' = nreq + 1

At(s, kind, pc) == req[s].kind = kind /\ req[s].pc = pc

---------------------------------------------------------------------------
(* What the properties say about the store, stated apart from the queries *)

\* some record has this email
EmailTaken(email) == \E i \in Ids : users[i].email = email

\* the records that hold this verification code with its expiry still ahead
Holders(code, t) ==
    {i \in Ids : /\ users[i].verificationToken = Some(code)
                 /\ users[i].verificationTokenExpireAt # Absent
                 /\ users[i].verificationTokenExpireAt[1] > t}

\* the records that hold this verification code with an expiry that is not ahead
ExpiredHolders(code, t) ==
    {i \in Ids : /\ users[i].verificationToken = Some(code)
                 /\ users[i].verificationTokenExpireAt # Absent
                 /\ users[i].verificationTokenExpireAt[1] <= t}

\* the records that hold this reset token with its expiry still ahead
ResetHolders(token, t) ==
    {i \in Ids : /\ users[i].resetPasswordToken = Some(token)
                 /\ users[i].resetPasswordExpireAt # Absent
                 /\ users[i].resetPasswordExpireAt[1] > t}

\* the records that hold this reset token with an expiry that is not ahead
ExpiredResetHolders(token, t) ==
    {i \in Ids : /\ users[i].resetPasswordToken = Some(token)
                 /\ users[i].resetPasswordExpireAt # Absent
                 /\ users[i].resetPasswordExpireAt[1] <= t}

\* the passwords a stored hash authenticates
Authenticating(hash) == {p \in Passwords : hash.alg = "bcrypt" /\ hash.digest = p}

\* a record has this email and its hash does not authenticate this password
Mismatch(email, password) ==
    /\ email # Absent /\ password # Absent
    /\ \E i \in Ids : users[i].email = email[1]
    /\ \A i \in Ids : users[i].email = email[1]
                         => password[1] \notin Authenticating(users[i].password)

\* how a password relates to the last replacement of the password of the record
\* with this email: the one set, one that authenticated before, or neither
AfterReset(email, password) ==
    IF email = Absent \/ password = Absent THEN "none"
    ELSE LET rs == {r \in pwReset : r.id \in Ids /\ users[r.id].email = email[1]} IN
         IF rs = {} THEN "none"
         ELSE IF \E r \in rs : password[1] = r.new THEN "new"
         ELSE IF \E r \in rs : password[1] \in r.old THEN "old"
         ELSE "other"

\* crypto.randomBytes(20) does not repeat a token that a record or a request in
\* flight still holds
FreshResetTokens ==
    {t \in ResetTokens :
        /\ \A i \in Ids : users[i].resetPasswordToken # Some(t)
        /\ \A s \in Slots : req[s].doc.resetPasswordToken # Some(t)}

\* why a verification code is not acceptable
Reasons(code, t) ==
    LET held == {i \in Ids : users[i].verificationToken = Some(code)} IN
    (IF held = {} /\ code \notin consumed THEN {"nomatch"} ELSE {})
    \cup (IF held # {} /\ Holders(code, t) = {} THEN {"expired"} ELSE {})
    \cup (IF held = {} /\ code \in consumed THEN {"consumed"} ELSE {})

---------------------------------------------------------------------------
(* signup *)

\* err: the awaited operation that rejects while the handler runs ("none": none does)
signup(s, email, password, name, code, err) ==
    /\ Accept(s)
    /\ LET in == [NoIn EXCEPT !.email = email, !.password = password, !.name = name]
           pre == [NoPre EXCEPT
                      !.existed = (email # Absent /\ EmailTaken(email[1])),
                      !.missing = (Absent \in {email, password, name}),
                      !.err = err]
       IN  IF email = Absent \/ password = Absent \/ name = Absent
           THEN Respond(s, Response("signup", 400, "All fields are required",
                                    NoCookie, NoMail, Absent, 0, in, pre))
           ELSE IF err = "find"
           THEN \* await User.findOne({ email }) rejects
                Catch(s, Response("signup", 500, "Error creating user",
                                  NoCookie, NoMail, Absent, 0, in, pre))
           ELSE IF findByEmail(email[1]) # {}
           THEN Respond(s, Response("signup", 400, "User already exists",
                                    NoCookie, NoMail, Absent, 0, in, pre))
           ELSE IF err = "hash"
           THEN \* await bcryptjs.hash(password, 10) rejects
                Catch(s, Response("signup", 500, "Error creating user",
                                  NoCookie, NoMail, Absent, 0, in, pre))
           ELSE Await(s, [IdleReq EXCEPT
                    !.kind = "signup", !.pc = "save", !.in = in, !.pre = pre,
                    !.doc = userSchema(email[1], bcryptHash(password[1], BcryptCost),
                                       name[1], code, now + VerificationTTL, now)])
    /\ UNCHANGED <<users, now, consumed, failedVerify, spent, pwReset>>

\* await user.save(); generateTokenAndCookies(res, user._id)
signupSave(s, err) ==
    /\ At(s, "signup", "save")
    /\ IF err = "save"
       THEN /\ Catch(s, Response("signup", 500, "Error creating user",
                                 NoCookie, NoMail, Absent, 0, req[s].in,
                                 [req[s].pre EXCEPT !.err = err]))
            /\ UNCHANGED users
       ELSE IF duplicateKey(req[s].doc.email)
       THEN \* the insert is rejected (E11000), save throws, the catch answers
            /\ Catch(s, Response("signup", 500, "Error creating user",
                                 NoCookie, NoMail, Absent, 0, req[s].in,
                                 [req[s].pre EXCEPT !.dup = TRUE]))
            /\ UNCHANGED users
       ELSE IF err = "sign"
       THEN \* the document is inserted, then jwt.sign throws in
            \* generateTokenAndCookies before res.cookie is reached
            /\ users' = Append(users, req[s].doc)
            /\ Catch(s, Response("signup", 500, "Error creating user",
                                 NoCookie, NoMail, Absent, Len(users) + 1, req[s].in,
                                 [req[s].pre EXCEPT !.err = err]))
       ELSE /\ users' = Append(users, req[s].doc)
            /\ Await(s, [req[s] EXCEPT
                    !.pc = "mail", !.id = Len(users) + 1,
                    !.pre = [req[s].pre EXCEPT !.at = now],
                    !.cookie = generateTokenAndCookies(Len(users) + 1, now)])
    /\ UNCHANGED <<now, nreq, consumed, failedVerify, spent, pwReset>>

\* await sendVerificationEmail(email, verificationToken); res.status(201)
signupMail(s, delivered) ==
    /\ At(s, "signup", "mail")
    /\ LET mail == sendVerificationEmail(req[s].doc.email,
                                         req[s].doc.verificationToken[1], delivered)
       IN  IF mail.threw
           THEN \* the catch of signup; res.cookie has been called already
                Catch(s, Response("signup", 500, "Error creating user",
                                    req[s].cookie, mail, Absent, req[s].id,
                                    req[s].in, req[s].pre))
           ELSE Respond(s, Response("signup", 201, "User created successfully",
                                    req[s].cookie, mail, Absent, req[s].id,
                                    req[s].in, req[s].pre))
    /\ UNCHANGED <<users, now, nreq, consumed, failedVerify, spent, pwReset>>

---------------------------------------------------------------------------
(* verifyEmail *)

\* faulty variant: the token fields are not cleared
markVerified_KeepsToken(user) ==
    [user EXCEPT !.isVerified = TRUE]

\* faulty variant: the token fields are cleared but isVerified is not set
markVerified_NoFlag(user) ==
    [user EXCEPT !.verificationToken = Absent,
                 !.verificationTokenExpireAt = Absent]

\* faulty variant: the expiry is left in place when the code is cleared
markVerified_KeepsExpiry(user) ==
    [user EXCEPT !.isVerified = TRUE,
                 !.verificationToken = Absent]

\* user.isVerified = true; user.verificationToken = undefined;
\* user.verificationTokenExpireAt = undefined
markVerified(user) ==
    [user EXCEPT !.isVerified = TRUE,
                 !.verificationToken = Absent,
                 !.verificationTokenExpireAt = Absent]

\* code: req.body.code, undefined when the body has none
verifyEmail(s, code, err) ==
    /\ Accept(s)
    /\ LET in == [NoIn EXCEPT !.code = code]
           pre == [NoPre EXCEPT
                      !.holders = IF code = Absent THEN {} ELSE Holders(code[1], now),
                      !.expired = IF code = Absent THEN {}
                                  ELSE ExpiredHolders(code[1], now),
                      !.reasons = IF code = Absent THEN {"nomatch"}
                                  ELSE Reasons(code[1], now),
                      !.failedBefore = failedVerify,
                      !.at = now,
                      !.err = err]
           \* an undefined value in the filter is sent as null, which matches the
           \* records that have no verificationToken
           found == findByVerificationToken(code, now)
       IN  IF err = "find"
           THEN \* await User.findOne({ verificationToken, ... }) rejects
                /\ Catch(s, Response("verifyEmail", 500, "Error verifying email",
                                     NoCookie, NoMail, Absent, 0, in, pre))
                /\ UNCHANGED failedVerify
           ELSE IF found = {}
           THEN /\ Respond(s, Response("verifyEmail", 400, "Invalid or expired code",
                                       NoCookie, NoMail, Absent, 0, in, pre))
                /\ failedVerify' = failedVerify + 1
           ELSE /\ \E i \in found :
                     LET doc == markVerified(users[i])
                         stamped == timestamps(doc,
                                       modifiedPaths(users[i], doc,
                                          {"isVerified", "verificationToken",
                                           "verificationTokenExpireAt"}), now)
                     IN  Await(s, [IdleReq EXCEPT
                            !.kind = "verifyEmail", !.pc = "save", !.in = in,
                            !.pre = pre, !.id = i,
                            !.doc = stamped.doc, !.paths = stamped.paths])
                /\ UNCHANGED failedVerify
    /\ UNCHANGED <<users, now, consumed, spent, pwReset>>

\* await user.save()
verifyEmailSave(s, err) ==
    /\ At(s, "verifyEmail", "save")
    /\ IF err = "save"
       THEN /\ Catch(s, Response("verifyEmail", 500, "Error verifying email",
                                 NoCookie, NoMail, Absent, req[s].id, req[s].in,
                                 [req[s].pre EXCEPT !.err = err]))
            /\ UNCHANGED <<users, consumed>>
       ELSE /\ users' = updateOne(req[s].id, req[s].doc, req[s].paths)
            /\ consumed' = consumed \cup {c \in Codes : Some(c) = req[s].in.code}
            /\ Await(s, [req[s] EXCEPT !.pc = "mail"])
    /\ UNCHANGED <<now, nreq, failedVerify, spent, pwReset>>

\* await sendWelcomeEmail(user.email, user.name); res.status(200)
verifyEmailMail(s, delivered) ==
    /\ At(s, "verifyEmail", "mail")
    /\ LET mail == sendWelcomeEmail(req[s].doc.email, req[s].doc.name, delivered)
       IN  IF mail.threw
           THEN Catch(s, Response("verifyEmail", 500, "Error verifying email",
                                    NoCookie, mail, Absent, req[s].id,
                                    req[s].in, req[s].pre))
           ELSE Respond(s, Response("verifyEmail", 200, "Email verified successfully",
                                    NoCookie, mail, Absent, req[s].id,
                                    req[s].in, req[s].pre))
    /\ UNCHANGED <<users, now, nreq, consumed, failedVerify, spent, pwReset>>

---------------------------------------------------------------------------
(* login *)

\* faulty variant: an unverified record cannot log in
isMatch_VerifiedOnly(user, password) ==
    user.isVerified /\ bcryptCompare(password, user.password)

\* const isMatch = await bcrypt.compare(password, user.password)
isMatch(user, password) == bcryptCompare(password, user.password)

login(s, email, password, err) ==
    /\ Accept(s)
    /\ LET in == [NoIn EXCEPT !.email = email, !.password = password]
           pre == [NoPre EXCEPT
                      !.existed = (email # Absent /\ EmailTaken(email[1])),
                      !.missing = (Absent \in {email, password}),
                      !.mismatch = Mismatch(email, password),
                      !.afterReset = AfterReset(email, password),
                      !.at = now,
                      !.err = err]
       IN  IF email = Absent \/ password = Absent
           THEN Respond(s, Response("login", 400, "All fields are required",
                                    NoCookie, NoMail, Absent, 0, in, pre))
           ELSE IF err = "find"
           THEN \* await User.findOne({ email }) rejects
                Catch(s, Response("login", 500, "Error logging in",
                                  NoCookie, NoMail, Absent, 0, in, pre))
           ELSE IF findByEmail(email[1]) = {}
           THEN Respond(s, Response("login", 400, "User not found",
                                    NoCookie, NoMail, Absent, 0, in, pre))
           ELSE \E i \in findByEmail(email[1]) :
                  IF err = "compare"
                  THEN \* await bcryptjs.compare(password, user.password) rejects
                       Catch(s, Response("login", 500, "Error logging in",
                                         NoCookie, NoMail, Absent, i, in, pre))
                  ELSE IF ~isMatch(users[i], password[1])
                  THEN Respond(s, Response("login", 400, "Invalid credentials",
                                           NoCookie, NoMail, Absent, i, in, pre))
                  ELSE IF err = "sign"
                  THEN \* jwt.sign throws in generateTokenAndCookies
                       Catch(s, Response("login", 500, "Error logging in",
                                         NoCookie, NoMail, Absent, i, in, pre))
                  ELSE LET doc == [users[i] EXCEPT !.lastlogin = now]
                           stamped == timestamps(doc,
                                         modifiedPaths(users[i], doc, {"lastlogin"}),
                                         now)
                       IN  Await(s, [IdleReq EXCEPT
                              !.kind = "login", !.pc = "save", !.in = in, !.pre = pre,
                              !.id = i,
                              !.cookie = generateTokenAndCookies(i, now),
                              !.doc = stamped.doc, !.paths = stamped.paths])
    /\ UNCHANGED <<users, now, consumed, failedVerify, spent, pwReset>>

\* await user.save(); res.status(200)
loginSave(s, err) ==
    /\ At(s, "login", "save")
    /\ IF err = "save"
       THEN \* res.cookie has been called already, the 500 carries the Set-Cookie header
            /\ Catch(s, Response("login", 500, "Error logging in",
                                 req[s].cookie, NoMail, Absent, req[s].id, req[s].in,
                                 [req[s].pre EXCEPT !.err = err]))
            /\ UNCHANGED users
       ELSE /\ users' = updateOne(req[s].id, req[s].doc, req[s].paths)
            /\ Respond(s, Response("login", 200, "Login successful",
                                   req[s].cookie, NoMail, Absent, req[s].id, req[s].in,
                                   [req[s].pre EXCEPT
                                       !.prevLogin = users[req[s].id].lastlogin]))
    /\ UNCHANGED <<now, nreq, consumed, failedVerify, spent, pwReset>>

---------------------------------------------------------------------------
(* logout *)

logout(s, cookie) ==
    /\ Accept(s)
    /\ Respond(s, Response("logout", 200, "Logged out successfully",
                           clearCookie, NoMail, Absent, 0,
                           [NoIn EXCEPT !.cookie = cookie],
                           NoPre))
    /\ UNCHANGED <<users, now, consumed, failedVerify, spent, pwReset>>

---------------------------------------------------------------------------
(* forgotPassword *)

\* faulty variant: a token that is already stored is kept
setResetToken_KeepsFirst(user, resetToken, resetTokenExpireAt) ==
    IF user.resetPasswordToken # Absent THEN user
    ELSE [user EXCEPT !.resetPasswordToken = Some(resetToken),
                      !.resetPasswordExpireAt = Some(resetTokenExpireAt)]

\* user.resetPasswordToken = resetToken;
\* user.resetPasswordExpireAt = resetTokenExpireAt
setResetToken(user, resetToken, resetTokenExpireAt) ==
    [user EXCEPT !.resetPasswordToken = Some(resetToken),
                 !.resetPasswordExpireAt = Some(resetTokenExpireAt)]

\* faulty variant: the record is looked up before the input is checked
forgotPassword_LooksUpFirst(s, email, resetToken, err) ==
    /\ Accept(s)
    /\ LET in == [NoIn EXCEPT !.email = email]
           pre == [NoPre EXCEPT
                      !.existed = (email # Absent /\ EmailTaken(email[1])),
                      !.missing = (email = Absent),
                      !.at = now,
                      !.err = err]
       IN  IF err = "find"
           THEN Catch(s, Response("forgotPassword", 500, "Error in forgot password",
                                  NoCookie, NoMail, Absent, 0, in, pre))
           ELSE IF email = Absent
           THEN Respond(s, Response("forgotPassword", 400, "Email is required",
                                    NoCookie, NoMail, Absent, 0, in, pre))
           ELSE IF findByEmail(email[1]) = {}
           THEN Respond(s, Response("forgotPassword", 400, "User not found",
                                    NoCookie, NoMail, Absent, 0, in, pre))
           ELSE \E i \in findByEmail(email[1]) :
                  LET doc == setResetToken(users[i], resetToken, now + ResetTTL)
                      stamped == timestamps(doc,
                                    modifiedPaths(users[i], doc,
                                       {"resetPasswordToken",
                                        "resetPasswordExpireAt"}), now)
                  IN  Await(s, [IdleReq EXCEPT
                         !.kind = "forgotPassword", !.pc = "save", !.in = in,
                         !.pre = pre, !.id = i,
                         !.doc = stamped.doc, !.paths = stamped.paths])
    /\ UNCHANGED <<users, now, consumed, failedVerify, spent, pwReset>>

forgotPassword(s, email, resetToken, err) ==
    /\ Accept(s)
    /\ LET in == [NoIn EXCEPT !.email = email]
           pre == [NoPre EXCEPT
                      !.existed = (email # Absent /\ EmailTaken(email[1])),
                      !.missing = (email = Absent),
                      !.at = now,
                      !.err = err]
       IN  IF email = Absent
           THEN Respond(s, Response("forgotPassword", 400, "Email is required",
                                    NoCookie, NoMail, Absent, 0, in, pre))
           ELSE IF err = "find"
           THEN \* await User.findOne({ email }) rejects
                Catch(s, Response("forgotPassword", 500, "Error in forgot password",
                                  NoCookie, NoMail, Absent, 0, in, pre))
           ELSE IF findByEmail(email[1]) = {}
           THEN Respond(s, Response("forgotPassword", 400, "User not found",
                                    NoCookie, NoMail, Absent, 0, in, pre))
           ELSE \E i \in findByEmail(email[1]) :
                  LET doc == setResetToken(users[i], resetToken, now + ResetTTL)
                      stamped == timestamps(doc,
                                    modifiedPaths(users[i], doc,
                                       {"resetPasswordToken",
                                        "resetPasswordExpireAt"}), now)
                  IN  Await(s, [IdleReq EXCEPT
                         !.kind = "forgotPassword", !.pc = "save", !.in = in,
                         !.pre = pre, !.id = i,
                         !.doc = stamped.doc, !.paths = stamped.paths])
    /\ UNCHANGED <<users, now, consumed, failedVerify, spent, pwReset>>

\* faulty variant: the mail is requested whether or not the save succeeded
forgotPasswordSave_MailsAnyway(s, err) ==
    /\ At(s, "forgotPassword", "save")
    /\ IF err = "save"
       THEN /\ Await(s, [req[s] EXCEPT !.pc = "mail"])
            /\ UNCHANGED <<users, spent>>
       ELSE /\ users' = updateOne(req[s].id, req[s].doc, req[s].paths)
            /\ spent' = IF "resetPasswordToken" \in req[s].paths
                        THEN spent \ {req[s].doc.resetPasswordToken[1]}
                        ELSE spent
            /\ Await(s, [req[s] EXCEPT !.pc = "mail"])
    /\ UNCHANGED <<now, nreq, consumed, failedVerify, pwReset>>

\* await user.save()
forgotPasswordSave(s, err) ==
    /\ At(s, "forgotPassword", "save")
    /\ IF err = "save"
       THEN /\ Catch(s, Response("forgotPassword", 500, "Error in forgot password",
                                 NoCookie, NoMail, Absent, req[s].id, req[s].in,
                                 [req[s].pre EXCEPT !.err = err]))
            /\ UNCHANGED <<users, spent>>
       ELSE /\ users' = updateOne(req[s].id, req[s].doc, req[s].paths)
            /\ spent' = IF "resetPasswordToken" \in req[s].paths
                        THEN spent \ {req[s].doc.resetPasswordToken[1]}
                        ELSE spent
            /\ Await(s, [req[s] EXCEPT !.pc = "mail"])
    /\ UNCHANGED <<now, nreq, consumed, failedVerify, pwReset>>

\* await sendPasswordResetEmail(email, resetLink); res.status(200)
forgotPasswordMail(s, delivered) ==
    /\ At(s, "forgotPassword", "mail")
    /\ LET mail == sendPasswordResetEmail(req[s].in.email[1],
                                          req[s].doc.resetPasswordToken[1], delivered)
       IN  IF mail.threw
           THEN Catch(s, Response("forgotPassword", 500, "Error in forgot password",
                                    NoCookie, mail, Absent, req[s].id,
                                    req[s].in, req[s].pre))
           ELSE Respond(s, Response("forgotPassword", 200, "Password reset email sent",
                                    NoCookie, mail, Absent, req[s].id,
                                    req[s].in, req[s].pre))
    /\ UNCHANGED <<users, now, nreq, consumed, failedVerify, spent, pwReset>>

---------------------------------------------------------------------------
(* resetPassword *)

\* faulty variant: the reset fields are cleared but the hash is not replaced
replacePassword_KeepsPassword(user, hashedPassword) ==
    [user EXCEPT !.resetPasswordToken = Absent,
                 !.resetPasswordExpireAt = Absent]

\* faulty variant: the hash is replaced but the reset fields are kept
replacePassword_KeepsToken(user, hashedPassword) ==
    [user EXCEPT !.password = hashedPassword]

\* user.password = hashedPassword; user.resetPasswordToken = undefined;
\* user.resetPasswordExpireAt = undefined
replacePassword(user, hashedPassword) ==
    [user EXCEPT !.password = hashedPassword,
                 !.resetPasswordToken = Absent,
                 !.resetPasswordExpireAt = Absent]

resetPassword(s, token, password, err) ==
    /\ Accept(s)
    /\ LET in == [NoIn EXCEPT !.token = Some(token), !.password = password]
           pre == [NoPre EXCEPT !.missing = (password = Absent),
                                !.spent = (token \in spent),
                                !.holders = ResetHolders(token, now),
                                !.expired = ExpiredResetHolders(token, now),
                                !.at = now,
                                !.err = err]
           found == findByResetToken(Some(token), now)
       IN  IF password = Absent
           THEN Respond(s, Response("resetPassword", 400, "All fields are required",
                                    NoCookie, NoMail, Absent, 0, in, pre))
           ELSE IF err = "find"
           THEN \* await User.findOne({ resetPasswordToken, ... }) rejects
                Catch(s, Response("resetPassword", 500, "Error resetting password",
                                  NoCookie, NoMail, Absent, 0, in, pre))
           ELSE IF found = {}
           THEN Respond(s, Response("resetPassword", 400, "Invalid or expired token",
                                    NoCookie, NoMail, Absent, 0, in, pre))
           ELSE \E i \in found :
                  IF err = "hash"
                  THEN \* await bcryptjs.hash(password, 10) rejects
                       Catch(s, Response("resetPassword", 500,
                                         "Error resetting password",
                                         NoCookie, NoMail, Absent, i, in, pre))
                  ELSE
                  \* bcrypt.hash draws a new salt, so the new hash differs from the
                  \* loaded one and password is always a modified path
                  LET doc == replacePassword(users[i],
                                             bcryptHash(password[1], BcryptCost))
                      stamped == timestamps(doc,
                                    {"password"} \cup
                                    modifiedPaths(users[i], doc,
                                       {"resetPasswordToken",
                                        "resetPasswordExpireAt"}), now)
                  IN  Await(s, [IdleReq EXCEPT
                         !.kind = "resetPassword", !.pc = "save", !.in = in,
                         !.pre = pre, !.id = i,
                         !.doc = stamped.doc, !.paths = stamped.paths])
    /\ UNCHANGED <<users, now, consumed, failedVerify, spent, pwReset>>

\* await user.save()
resetPasswordSave(s, err) ==
    /\ At(s, "resetPassword", "save")
    /\ IF err = "save"
       THEN /\ Catch(s, Response("resetPassword", 500, "Error resetting password",
                                 NoCookie, NoMail, Absent, req[s].id, req[s].in,
                                 [req[s].pre EXCEPT !.err = err]))
            /\ UNCHANGED <<users, spent, pwReset>>
       ELSE /\ users' = updateOne(req[s].id, req[s].doc, req[s].paths)
            /\ spent' = spent \cup {req[s].in.token[1]}
            /\ pwReset' = {r \in pwReset : r.id # req[s].id}
                          \cup {[id |-> req[s].id,
                                 old |-> Authenticating(users[req[s].id].password),
                                 new |-> req[s].in.password[1]]}
            /\ Await(s, [req[s] EXCEPT !.pc = "mail"])
    /\ UNCHANGED <<now, nreq, consumed, failedVerify>>

\* faulty variant: a successful reset logs the owner of the record in
resetPasswordMail_LogsIn(s, delivered) ==
    /\ At(s, "resetPassword", "mail")
    /\ Respond(s, Response("resetPassword", 200, "Password reset successful",
                           generateTokenAndCookies(req[s].id, now),
                           sendPasswordResetConfirmationEmail(req[s].doc.email,
                                                              delivered),
                           Absent, req[s].id,
                           [req[s].in EXCEPT !.email = Some(req[s].doc.email)],
                           req[s].pre))
    /\ UNCHANGED <<users, now, nreq, consumed, failedVerify, spent, pwReset>>

\* await sendPasswordResetConfirmationEmail(user.email); res.status(200)
resetPasswordMail(s, delivered) ==
    /\ At(s, "resetPassword", "mail")
    /\ LET mail == sendPasswordResetConfirmationEmail(req[s].doc.email, delivered)
       IN  IF mail.threw
           THEN Catch(s, Response("resetPassword", 500, "Error resetting password",
                                    NoCookie, mail, Absent, req[s].id,
                                    req[s].in, req[s].pre))
           ELSE Respond(s, Response("resetPassword", 200, "Password reset successful",
                                    NoCookie, mail, Absent, req[s].id,
                                    req[s].in, req[s].pre))
    /\ UNCHANGED <<users, now, nreq, consumed, failedVerify, spent, pwReset>>

---------------------------------------------------------------------------
(* router.get("/check-auth", verifyToken, checkAuth) *)

\* faulty variant: the missing-cookie check is dropped and jwt.verify's error is swallowed
verifyToken_NoCookiePasses(cookie, t) ==
    IF cookie = Absent
    THEN [next |-> TRUE, status |-> 0, message |-> "", userId |-> 0]
    ELSE IF jwtVerify(cookie[1], t) # "ok"
    THEN [next |-> FALSE, status |-> 500,
          message |-> "Error verifying token", userId |-> 0]
    ELSE [next |-> TRUE, status |-> 0, message |-> "", userId |-> cookie[1].id]

\* faulty variant: the id is read from a claim the token does not carry
verifyToken_WrongClaim(cookie, t) ==
    IF cookie = Absent
    THEN [next |-> FALSE, status |-> 401,
          message |-> "No token, authorization denied", userId |-> 0]
    ELSE IF jwtVerify(cookie[1], t) # "ok"
    THEN [next |-> FALSE, status |-> 500,
          message |-> "Error verifying token", userId |-> 0]
    ELSE [next |-> TRUE, status |-> 0, message |-> "", userId |-> 0]

\* faulty variant: a token signed before the record was last written is refused
verifyToken_RevokedByWrite(cookie, t) ==
    IF cookie = Absent
    THEN [next |-> FALSE, status |-> 401,
          message |-> "No token, authorization denied", userId |-> 0]
    ELSE IF jwtVerify(cookie[1], t) # "ok"
            \/ (cookie[1].id \in Ids
                  /\ users[cookie[1].id].updatedAt > users[cookie[1].id].lastlogin)
    THEN [next |-> FALSE, status |-> 500,
          message |-> "Error verifying token", userId |-> 0]
    ELSE [next |-> TRUE, status |-> 0, message |-> "", userId |-> cookie[1].id]

\* The middleware: whether it calls next(), and what it answers when it does not.
\* jwt.verify returns the payload or throws, so decoded is never falsy and the
\* 401 "Token is not valid" branch is not taken; what it throws is caught and
\* answered with 500.
verifyToken(cookie, t) ==
    IF cookie = Absent
    THEN [next |-> FALSE, status |-> 401,
          message |-> "No token, authorization denied", userId |-> 0]
    ELSE IF jwtVerify(cookie[1], t) # "ok"
    THEN [next |-> FALSE, status |-> 500,
          message |-> "Error verifying token", userId |-> 0]
    ELSE [next |-> TRUE, status |-> 0, message |-> "", userId |-> cookie[1].id]

checkAuthRoute(s, cookie) ==
    /\ Accept(s)
    /\ LET in == [NoIn EXCEPT !.cookie = cookie]
           pre == [NoPre EXCEPT
                      !.tokenState = IF cookie = Absent THEN "absent"
                                     ELSE jwtVerify(cookie[1], now),
                      !.at = now,
                      !.after = IF resp.kind = "logout" /\ resp.in.cookie = cookie
                                THEN "logout" ELSE "none"]
           guard == verifyToken(cookie, now)
       IN  IF guard.next
           THEN \* req.userId = decoded.id; next()
                Await(s, [IdleReq EXCEPT
                   !.kind = "checkAuth", !.pc = "find", !.in = in, !.pre = pre,
                   !.id = guard.userId])
           ELSE Respond(s, Response("checkAuth", guard.status, guard.message,
                                    NoCookie, NoMail, Absent, 0, in, pre))
    /\ UNCHANGED <<users, now, consumed, failedVerify, spent, pwReset>>

\* const user = await User.findById(req.userId).select("-password")
checkAuth(s, err) ==
    /\ At(s, "checkAuth", "find")
    /\ IF err = "find"
       THEN \* await User.findById(req.userId) rejects
            Catch(s, Response("checkAuth", 500, "Error checking auth",
                              NoCookie, NoMail, Absent, 0, req[s].in,
                              [req[s].pre EXCEPT !.err = err]))
       ELSE IF req[s].id \notin Ids
       THEN Respond(s, Response("checkAuth", 404, "User not found",
                                NoCookie, NoMail, Absent, 0, req[s].in, req[s].pre))
       ELSE Respond(s, Response("checkAuth", 200, "",
                                NoCookie, NoMail,
                                Some(selectNoPassword(users[req[s].id])),
                                req[s].id, req[s].in, req[s].pre))
    /\ UNCHANGED <<users, now, nreq, consumed, failedVerify, spent, pwReset>>

---------------------------------------------------------------------------
(* The client: the state kept by useAuthStore, and what each of its actions
   makes of the response it awaited.  null and undefined are kept apart. *)

NullUser == [is |-> "null", doc |-> Absent]

\* response.data.user: undefined when the body carries no user
dataUser(response) ==
    IF response.user = Absent THEN [is |-> "undefined", doc |-> Absent]
    ELSE [is |-> "object", doc |-> response.user[1]]

\* axios resolves on a 2xx status and rejects on any other
Resolves(response) == response.status >= 200 /\ response.status < 300

\* create((set) => ({ user: null, isAuthenticated: false, error: null, ... }))
useAuthStore ==
    [user |-> NullUser, isAuthenticated |-> FALSE, error |-> Absent,
     isLoading |-> FALSE, isCheckingAuth |-> TRUE, message |-> Absent]

\* set({ isLoading: false, user: response.data.user, isAuthenticated: true }), or in
\* the catch set({ isLoading: false, error: error.response.data.message })
setFromResponse(state, response) ==
    IF Resolves(response)
    THEN [state EXCEPT !.isLoading = FALSE, !.error = Absent,
                       !.user = dataUser(response), !.isAuthenticated = TRUE]
    ELSE [state EXCEPT !.isLoading = FALSE, !.error = Some(response.message)]

\* the signup action of the store, completed with this response
storeSignup(state, response) == setFromResponse(state, response)

\* the verifyEmail action of the store
storeVerifyEmail(state, response) == setFromResponse(state, response)

\* the login action of the store
storeLogin(state, response) == setFromResponse(state, response)

\* the checkAuth action of the store
storeCheckAuth(state, response) ==
    IF Resolves(response)
    THEN [state EXCEPT !.isCheckingAuth = FALSE, !.error = Absent,
                       !.user = dataUser(response), !.isAuthenticated = TRUE]
    ELSE [state EXCEPT !.isCheckingAuth = FALSE, !.error = Absent,
                       !.user = NullUser, !.isAuthenticated = FALSE]

\* the logout action of the store
storeLogout(state, response) ==
    IF Resolves(response)
    THEN [state EXCEPT !.isLoading = FALSE, !.error = Absent,
                       !.user = NullUser, !.isAuthenticated = FALSE]
    ELSE [state EXCEPT !.isLoading = FALSE, !.error = Some(response.message)]

\* ProtectedRoute: what rendering it does with the store
ProtectedRoute(state) ==
    IF ~state.isAuthenticated THEN "login"
    ELSE IF state.user.is # "object" THEN "TypeError"
    ELSE IF ~state.user.doc.isVerified THEN "verify-email"
    ELSE "children"

---------------------------------------------------------------------------
(* The clock *)

Tick(t) ==
    /\ t > now
    /\ now' = t
    /\ resp' = NoResp
    /\ UNCHANGED <<users, req, jar, nreq, consumed, failedVerify, spent, pwReset, issued,
                   store, codeState>>

---------------------------------------------------------------------------

\* The collection as one completed signup at time 0 leaves it (signup, signupSave,
\* signupMail from the empty collection), and the cookie that signup handed out.
SignedUp ==
    <<userSchema("a@x.com", bcryptHash("Secret1!", BcryptCost), "Ann",
                 "111111", VerificationTTL, 0)>>

SignedUpJar == {generateTokenAndCookies(1, 0).token}

\* The collection after a forgotPassword for that record at time 0 (forgotPassword,
\* forgotPasswordSave, forgotPasswordMail from SignedUp).
ResetRequested ==
    <<[SignedUp[1] EXCEPT !.resetPasswordToken = Some("aa11"),
                          !.resetPasswordExpireAt = Some(ResetTTL)]>>

\* The server starts on the empty collection, or on the collection after that signup,
\* or after that signup and a forgotPassword.
Init ==
    /\ \/ users = <<>> /\ jar = {} /\ issued = {}
       \/ /\ users \in {SignedUp, ResetRequested}
          /\ jar = SignedUpJar
          /\ issued = {[token |-> t, email |-> "a@x.com", at |-> 0] : t \in SignedUpJar}
    /\ req = [s \in Slots |-> IdleReq]
    /\ resp = NoResp
    /\ now = 0
    /\ nreq = 0
    /\ consumed = {}
    /\ failedVerify = 0
    /\ spent = {}
    /\ pwReset = {}
    /\ store = useAuthStore
    /\ codeState = <<"", "", "", "", "", "">>

\* the awaited operations of each handler that can reject
Faults == {"find", "hash", "compare", "save", "sign"}

\* One step of a handler when the awaited operations in F may reject
Serve(F) ==
    \/ \E s \in Slots, email \in Opt(Emails), password \in Opt(Passwords),
          name \in Opt(Names), code \in Codes,
          err \in {"none"} \cup (F \cap {"find", "hash"}) :
            signup(s, email, password, name, code, err)
    \/ \E s \in Slots, err \in {"none"} \cup (F \cap {"save", "sign"}) :
            signupSave(s, err)
    \/ \E s \in Slots, delivered \in BOOLEAN : signupMail(s, delivered)
    \/ \E s \in Slots, code \in Opt(Codes), err \in {"none"} \cup (F \cap {"find"}) :
            verifyEmail(s, code, err)
    \/ \E s \in Slots, err \in {"none"} \cup (F \cap {"save"}) : verifyEmailSave(s, err)
    \/ \E s \in Slots, delivered \in BOOLEAN : verifyEmailMail(s, delivered)
    \/ \E s \in Slots, email \in Opt(Emails), password \in Opt(Passwords),
          err \in {"none"} \cup (F \cap {"find", "compare", "sign"}) :
            login(s, email, password, err)
    \/ \E s \in Slots, err \in {"none"} \cup (F \cap {"save"}) : loginSave(s, err)
    \/ \E s \in Slots, cookie \in Opt(jar) : logout(s, cookie)
    \/ \E s \in Slots, email \in Opt(Emails), resetToken \in FreshResetTokens,
          err \in {"none"} \cup (F \cap {"find"}) :
            forgotPassword(s, email, resetToken, err)
    \/ \E s \in Slots, err \in {"none"} \cup (F \cap {"save"}) :
            forgotPasswordSave(s, err)
    \/ \E s \in Slots, delivered \in BOOLEAN : forgotPasswordMail(s, delivered)
    \/ \E s \in Slots, token \in ResetTokens, password \in Opt(Passwords),
          err \in {"none"} \cup (F \cap {"find", "hash"}) :
            resetPassword(s, token, password, err)
    \/ \E s \in Slots, err \in {"none"} \cup (F \cap {"save"}) :
            resetPasswordSave(s, err)
    \/ \E s \in Slots, delivered \in BOOLEAN : resetPasswordMail(s, delivered)
    \/ \E s \in Slots, cookie \in Opt(jar \cup {ForgedToken}) : checkAuthRoute(s, cookie)
    \/ \E s \in Slots, err \in {"none"} \cup (F \cap {"find"}) : checkAuth(s, err)

\* the store and bcryptjs answer every call
Next ==
    \/ Serve({})
    \/ \E t \in Times : Tick(t)

Spec == Init /\ [][Next]_vars

\* a store operation a request in flight is waiting for completes
StoreStep(s) ==
    \/ signupSave(s, "none") \/ verifyEmailSave(s, "none") \/ loginSave(s, "none")
    \/ forgotPasswordSave(s, "none") \/ resetPasswordSave(s, "none")
    \/ checkAuth(s, "none")

\* the sender a request in flight is waiting for returns
MailStep(s) ==
    \E delivered \in BOOLEAN :
        \/ signupMail(s, delivered) \/ verifyEmailMail(s, delivered)
        \/ forgotPasswordMail(s, delivered) \/ resetPasswordMail(s, delivered)

\* The store answers every operation.  Nothing makes client.send settle: the
\* senders set no timeout, so the mail steps carry no fairness.
FairSpec == Spec /\ \A s \in Slots : WF_vars(StoreStep(s))

\* FairSpec with a mail client that always settles
FairMailSpec == FairSpec /\ \A s \in Slots : WF_vars(MailStep(s))

\* Any awaited store or bcryptjs call may reject.  The clock stands still: what
\* the handlers do with the time is covered by Spec.
FaultNext == Serve(Faults)

FaultSpec == Init /\ [][FaultNext]_vars


---------------------------------------------------------------------------
(* Sessions on a finer clock: one record, logins and check-auth requests at
   instants within a second and around the two lifetimes *)

SessionTimes ==
    {0, 1500, CookieMaxAge + 1500, JwtExpiresIn * 1000,
     JwtExpiresIn * 1000 + 1000, JwtExpiresIn * 1000 + 1500}

SessionInit == Init /\ users = SignedUp

SessionNext ==
    \/ \E s \in Slots, email \in Opt(Emails), password \in Opt(Passwords) :
            login(s, email, password, "none")
    \/ \E s \in Slots : loginSave(s, "none")
    \/ \E s \in Slots, cookie \in Opt(jar \cup {ForgedToken}) : checkAuthRoute(s, cookie)
    \/ \E s \in Slots : checkAuth(s, "none")
    \/ \E t \in SessionTimes : Tick(t)

SessionSpec == SessionInit /\ [][SessionNext]_vars
---------------------------------------------------------------------------
(* The client and the server together: the store action that awaited the last
   response completes with it. *)

StoreActions == {"signup", "verifyEmail", "login", "checkAuth", "logout"}

settle ==
    /\ resp.kind \in StoreActions
    /\ store' = CASE resp.kind = "signup" -> storeSignup(store, resp)
                  [] resp.kind = "verifyEmail" -> storeVerifyEmail(store, resp)
                  [] resp.kind = "login" -> storeLogin(store, resp)
                  [] resp.kind = "checkAuth" -> storeCheckAuth(store, resp)
                  [] resp.kind = "logout" -> storeLogout(store, resp)
    /\ UNCHANGED <<users, req, resp, jar, now, nreq, consumed, failedVerify, spent,
                   pwReset, issued, codeState>>

ClientNext ==
    \/ \E s \in Slots, email \in Opt(Emails), password \in Opt(Passwords),
          name \in Opt(Names), code \in Codes :
            signup(s, email, password, name, code, "none")
    \/ \E s \in Slots : signupSave(s, "none")
    \/ \E s \in Slots, delivered \in BOOLEAN : signupMail(s, delivered)
    \/ \E s \in Slots, code \in Opt(Codes) : verifyEmail(s, code, "none")
    \/ \E s \in Slots : verifyEmailSave(s, "none")
    \/ \E s \in Slots, delivered \in BOOLEAN : verifyEmailMail(s, delivered)
    \/ \E s \in Slots, email \in Opt(Emails), password \in Opt(Passwords) :
            login(s, email, password, "none")
    \/ \E s \in Slots : loginSave(s, "none")
    \/ \E s \in Slots, cookie \in Opt(jar) : logout(s, cookie)
    \/ \E s \in Slots, cookie \in Opt(jar \cup {ForgedToken}) : checkAuthRoute(s, cookie)
    \/ \E s \in Slots : checkAuth(s, "none")
    \/ settle

ClientSpec == Init /\ [][ClientNext]_vars
---------------------------------------------------------------------------
(* VerifyEmailPage: the six boxes of the verification code.  A string is the
   sequence of its characters; a box holds "" or one character. *)

Digits == {"0", "7"}
Chars == Digits \cup {"x"}

\* the longest value for which every string over Chars is tried
MaxTyped == 2
\* the longest pasted value
MaxPaste == 7

\* the digits of a pasted value, by position
PasteDigit(i) == IF i % 3 = 0 THEN "0" ELSE "7"

\* the values the change event may carry: every short string, and longer pasted
\* strings of digits, clean or with another character first or last
Values ==
    UNION {[1..n -> Chars] : n \in 0..MaxTyped}
    \cup {[i \in 1..n |-> PasteDigit(i)] : n \in 0..MaxPaste}
    \cup UNION {{[i \in 1..n |-> IF i = j THEN "x" ELSE PasteDigit(i)] : j \in {1, n}} :
                n \in 1..MaxPaste}

\* faulty variant: the value is not tested before it is stored
isDigits_Always(value) == TRUE

\* /^\d*$/.test(value)
isDigits(value) == \A i \in 1..Len(value) : value[i] \in Digits

\* faulty variant: the boxes after the pasted digits keep what they held
pasted_KeepsRest(newCode, value) ==
    [i \in 1..6 |-> IF i <= Len(value) THEN value[i] ELSE newCode[i]]

\* const pastedCode = value.slice(0, 6).split("");
\* for (let i = 0; i < 6; i++) newCode[i] = pastedCode[i] || ""
pasted(newCode, value) ==
    LET pastedCode == SubSeq(value, 1, IF Len(value) < 6 THEN Len(value) ELSE 6)
    IN  [i \in 1..6 |-> IF i <= Len(pastedCode) THEN pastedCode[i] ELSE ""]

\* value.slice(-1)
lastChar(value) == IF value = <<>> THEN "" ELSE value[Len(value)]

\* handleChange(index, value) on the code it closes over: the code it sets.
\* index is the 0-based position of the box.
handleChange(code, index, value) ==
    IF ~isDigits(value) THEN code
    ELSE LET newCode == [code EXCEPT ![index + 1] = lastChar(value)]
         IN  IF Len(value) > 1 THEN pasted(newCode, value) ELSE newCode

\* onChange={(e) => handleChange(index, e.target.value)} of box index
onChange(index, value) ==
    /\ codeState' = handleChange(codeState, index, value)
    /\ UNCHANGED <<users, req, resp, jar, now, nreq, consumed, failedVerify, spent,
                   pwReset, issued, store>>

CodeNext == \E index \in 0..5, value \in Values : onChange(index, value)

\* the page is mounted before any request is made
CodeInit == Init /\ users = <<>>

CodeSpec == CodeInit /\ [][CodeNext]_vars
---------------------------------------------------------------------------
(* Properties *)

\* The second initial state is one the program reaches from the first: the state
\* one signup of a@x.com leaves behind.
SignedUpReached ==
    /\ users = SignedUp /\ jar = SignedUpJar /\ nreq = 1
    /\ \A s \in Slots : req[s].pc = "idle"

\* The third is one it reaches from the second: the state one forgotPassword for
\* a@x.com leaves behind.
ResetRequestedReached ==
    /\ users = ResetRequested /\ jar = SignedUpJar /\ nreq = 1
    /\ spent = {} /\ pwReset = {}
    /\ \A s \in Slots : req[s].pc = "idle"

RequiredPresent(r) == ~r.pre.missing

\* a request answered in the step that received it
AnsweredAtOnce(kind) == nreq' = nreq + 1 /\ resp'.kind = kind

\* C1: every record of the store is either unverified with a verification token
\* present, or verified with the verification token absent, and never both or neither.
C1_VerifiedXorPending ==
    \A i \in Ids :
        \/ (users[i].isVerified = FALSE /\ users[i].verificationToken # Absent)
        \/ (users[i].isVerified = TRUE /\ users[i].verificationToken = Absent)

C1_Witness ==
    /\ \E i \in Ids : users[i].isVerified /\ users[i].verificationToken = Absent
    /\ \E j \in Ids : ~users[j].isVerified /\ users[j].verificationToken # Absent
    /\ resp.kind = "verifyEmail" /\ resp.status = 200

\* C2: whatever the interleaving of signup's findOne pre-check and its later save,
\* no two records of the store have the same email.
C2_UniqueEmail ==
    \A i \in Ids : \A j \in Ids : i # j => users[i].email # users[j].email

\* two signups for one email both passed the pre-check, and one save was rejected
C2_Witness ==
    /\ resp.kind = "signup" /\ resp.pre.dup /\ ~resp.pre.existed
    /\ Len(users) >= 1

\* C3: a signup that passed the pre-check and whose save the unique index rejects
\* answers as the pre-check does, 400 "User already exists", not 500.
C3_RaceLoserGetsConflict ==
    (resp.kind = "signup" /\ resp.pre.dup)
        => (resp.status = 400 /\ resp.message = "User already exists")

\* C4: a check-auth request whose token cookie is present but has a bad signature
\* or is expired is answered 401 "Token is not valid", and the handler is not run.
C4_InvalidTokenGets401 ==
    (resp.kind = "checkAuth"
        /\ resp.pre.tokenState \in {"JsonWebTokenError", "TokenExpiredError"})
        => (resp.status = 401 /\ resp.message = "Token is not valid")

\* C5: a check-auth request with no token cookie is answered 401 and the handler is
\* never called; the handler runs (is awaiting its lookup, or has answered 200 or
\* 404) only for a request whose token the guard verified, with the token's user id
\* attached as req.userId.
C5_GuardBeforeHandler ==
    /\ (resp.kind = "checkAuth" /\ resp.pre.tokenState = "absent")
            => (resp.status = 401 /\ resp.user = Absent)
    /\ (resp.kind = "checkAuth" /\ resp.status \in {200, 404})
            => resp.pre.tokenState = "ok"
    /\ \A s \in Slots :
          req[s].kind = "checkAuth" =>
              /\ req[s].in.cookie # Absent
              /\ req[s].pre.tokenState = "ok"
              /\ req[s].id = req[s].in.cookie[1].id

C5_Witness ==
    /\ resp.kind = "checkAuth" /\ resp.pre.tokenState = "absent" /\ resp.status = 401
    /\ \E s \in Slots : At(s, "checkAuth", "find")

\* C6: a verify-email carrying a code that a signup stored, sent while that code's
\* expiry is ahead, is answered 200 and leaves the record of that signup verified
\* with both verification fields cleared.
C6_VerifyAfterSignup ==
    (resp.kind = "verifyEmail" /\ resp.pre.holders # {})
        => /\ resp.status = 200
           /\ \A i \in resp.pre.holders :
                 /\ users[i].isVerified
                 /\ users[i].verificationToken = Absent
                 /\ users[i].verificationTokenExpireAt = Absent

\* C7: a signup whose email already has a record is answered 400 (with all fields
\* present: "User already exists"), goes no further than the pre-check, creates no
\* record, sets no cookie, requests no mail and leaves the store as it was.
C7_Answer ==
    /\ (resp.kind = "signup" /\ resp.pre.existed)
          => /\ resp.status = 400
             /\ RequiredPresent(resp) => resp.message = "User already exists"
             /\ resp.cookie = NoCookie
             /\ resp.mail = NoMail
             /\ resp.id = 0
    /\ \A s \in Slots : req[s].kind = "signup" => ~req[s].pre.existed

C7_ExistingEmailConflict ==
    /\ []C7_Answer
    /\ [][(AnsweredAtOnce("signup") /\ resp'.pre.existed)
             => (users' = users /\ jar' = jar)]_vars

C7_Witness ==
    /\ resp.kind = "signup" /\ resp.pre.existed /\ ~resp.pre.missing
    /\ resp.status = 400

\* C8: verify-email answers 400 "Invalid or expired code", the same status and text,
\* when the code matches no record, when it matches only records whose expiry has
\* passed, and when an earlier verification consumed it; it then modifies no record.
C8_Answer ==
    (resp.kind = "verifyEmail" /\ resp.pre.reasons # {})
        => (resp.status = 400 /\ resp.message = "Invalid or expired code")

C8_GenericRejection ==
    /\ []C8_Answer
    /\ [](\A s \in Slots : req[s].kind = "verifyEmail" => req[s].pre.reasons = {})
    /\ [][(AnsweredAtOnce("verifyEmail") /\ resp'.pre.reasons # {})
             => (users' = users)]_vars

C8_Witness ==
    resp.kind = "verifyEmail" /\ resp.pre.reasons = {"consumed"} /\ resp.status = 400

C8_WitnessExpired ==
    resp.kind = "verifyEmail" /\ resp.pre.reasons = {"expired"} /\ resp.status = 400

C8_WitnessNoMatch ==
    resp.kind = "verifyEmail" /\ resp.pre.reasons = {"nomatch"} /\ resp.status = 400

\* C9: a verify-email answered 400 changes no record, so no pending verification
\* token is consumed or altered; and after failed attempts a verify-email with a
\* code that a record holds unexpired is answered 200 and has verified a record
\* that held it.
C9_FailureKeepsTokens ==
    /\ [][(AnsweredAtOnce("verifyEmail") /\ resp'.status = 400)
             => (users' = users /\ consumed' = consumed)]_vars
    /\ []((resp.kind = "verifyEmail" /\ resp.pre.holders # {}
              /\ resp.pre.failedBefore > 0)
            => /\ resp.status = 200
               /\ resp.id \in resp.pre.holders
               /\ users[resp.id].isVerified)

C9_Witness ==
    /\ resp.kind = "verifyEmail" /\ resp.status = 200
    /\ resp.pre.failedBefore > 0
    /\ users[resp.id].isVerified

\* C10: a login with the email of a record and its current password is answered 200,
\* leaves lastlogin at a value not below the one the store held before, and sets a
\* cookie whose token the guard accepts.
C10_LoginAdvancesLastLogin ==
    (resp.kind = "login" /\ resp.status = 200)
        => /\ users[resp.id].lastlogin >= resp.pre.prevLogin
           /\ resp.cookie.op = "set"
           /\ resp.cookie.token \in jar

\* C11: a login with the email of a record and a password that the stored hash does
\* not authenticate is answered 400 in the step that received it, sets no cookie,
\* hands out no token and leaves every record, lastlogin included, as it was.
C11_Answer ==
    /\ (resp.kind = "login" /\ resp.pre.mismatch)
          => /\ resp.status = 400
             /\ resp.cookie.op = "none"
    /\ \A s \in Slots : req[s].kind = "login" => ~req[s].pre.mismatch

C11_WrongPasswordRejected ==
    /\ []C11_Answer
    /\ [][(AnsweredAtOnce("login") /\ resp'.pre.mismatch)
             => (users' = users /\ jar' = jar /\ issued' = issued)]_vars

C11_Witness ==
    /\ resp.kind = "login" /\ resp.pre.mismatch /\ resp.status = 400
    /\ resp.message = "Invalid credentials"

\* the step in which the save of a resetPassword request is applied
ResetSaved(s) == At(s, "resetPassword", "save") /\ req'[s].pc = "mail"

\* C12: the save of a reset-password leaves the record with both reset fields
\* cleared and with a hash that authenticates the new password and no other; a
\* login received after it with a password that authenticated before (and is not
\* the new one) is answered 400, and a login with the new password is answered 200.
C12_Answer ==
    /\ (resp.kind = "login" /\ resp.pre.afterReset = "old") => resp.status = 400
    /\ (resp.kind = "login" /\ resp.pre.afterReset = "new")
          => (resp.status = 200 /\ resp.cookie.op = "set")
    /\ \A s \in Slots : req[s].kind = "login" => req[s].pre.afterReset # "old"

C12_ResetReplacesPassword ==
    /\ []C12_Answer
    /\ [][\A s \in Slots : ResetSaved(s) =>
             LET u == users'[req[s].id] IN
             /\ u.resetPasswordToken = Absent
             /\ u.resetPasswordExpireAt = Absent
             /\ Authenticating(u.password) = {req[s].in.password[1]}]_vars

C12_Witness ==
    /\ resp.kind = "login" /\ resp.pre.afterReset = "new" /\ resp.status = 200
    /\ users[resp.id].resetPasswordToken = Absent
    /\ users[resp.id].resetPasswordExpireAt = Absent
    /\ \E r \in pwReset : r.id = resp.id /\ r.new \notin r.old

C12_WitnessOld ==
    /\ resp.kind = "login" /\ resp.pre.afterReset = "old" /\ resp.status = 400
    /\ resp.message = "Invalid credentials"

\* C13: a reset token is single-use: once the save of a reset-password has cleared
\* token t (at the latest when that call returned 200), every reset-password
\* received with t is answered 400 in the step that received it and changes no
\* record, the password included, until a forgot-password stores t again.
C13_Answer ==
    /\ (resp.kind = "resetPassword" /\ resp.pre.spent) => resp.status = 400
    /\ \A s \in Slots : req[s].kind = "resetPassword" => ~req[s].pre.spent

C13_ResetTokenSingleUse ==
    /\ []C13_Answer
    /\ [][(AnsweredAtOnce("resetPassword") /\ resp'.pre.spent)
             => users' = users]_vars

C13_Witness ==
    /\ resp.kind = "resetPassword" /\ resp.pre.spent /\ ~resp.pre.missing
    /\ resp.status = 400 /\ resp.message = "Invalid or expired token"
    /\ \E r \in pwReset : users[r.id].resetPasswordToken = Absent

\* C14: logout is answered 200 in the step that received it and clears the token
\* cookie, whether or not the request carried one; it leaves the store and the
\* tokens handed out as they were, and a logout that follows a logout gives the
\* same answer, the same cookie state and the same store.
C14_Answer ==
    /\ resp.kind = "logout"
          => /\ resp.status = 200
             /\ resp.cookie.op = "clear"
             /\ cookieAfter(resp.in.cookie, resp.cookie) = Absent
             /\ cookieAfter(cookieAfter(resp.in.cookie, resp.cookie), resp.cookie)
                   = cookieAfter(resp.in.cookie, resp.cookie)
    /\ \A s \in Slots : req[s].kind # "logout"

C14_LogoutIdempotent ==
    /\ []C14_Answer
    /\ [][AnsweredAtOnce("logout")
             => /\ users' = users /\ jar' = jar /\ issued' = issued
                /\ resp.kind = "logout"
                      => /\ resp'.status = resp.status
                         /\ resp'.message = resp.message
                         /\ resp'.cookie = resp.cookie]_vars

C14_Witness ==
    /\ resp.kind = "logout" /\ resp.in.cookie = Absent /\ resp.status = 200
    /\ Len(users) > 0

C14_WitnessCarried ==
    /\ resp.kind = "logout" /\ resp.in.cookie # Absent /\ resp.status = 200
    /\ nreq = 2

\* C15: no response carries a password hash: the 200 answer of check-auth carries
\* the fields of the record other than password, and every other response (of
\* signup, login, verify-email, forgot-password, reset-password, logout, and the
\* other answers of check-auth) carries no user fields at all.
C15_NoHashInResponse ==
    resp.kind # "none" =>
        IF resp.kind = "checkAuth" /\ resp.status = 200
        THEN /\ resp.user # Absent
             /\ "password" \notin DOMAIN resp.user[1]
             /\ \A f \in DOMAIN resp.user[1] : resp.user[1][f] = users[resp.id][f]
             /\ DOMAIN resp.user[1] = DOMAIN users[resp.id] \ {"password"}
        ELSE resp.user = Absent

C15_Witness ==
    /\ resp.kind = "checkAuth" /\ resp.status = 200
    /\ Authenticating(users[resp.id].password) # {}
    /\ resp.user[1].email = users[resp.id].email

\* C16: every session token handed out embeds the id of the record whose email the
\* signup or login it answered carried; a check-auth that passed the guard with such
\* a token looks up exactly the id embedded in the token, and its 200 answer carries
\* the record of that email and of no other.
C16_TokenBindsUser ==
    /\ \A e \in issued :
          e.token.id \in Ids /\ users[e.token.id].email = e.email
    /\ \A s \in Slots :
          req[s].kind = "checkAuth" =>
              /\ req[s].id = req[s].in.cookie[1].id
              /\ \E e \in issued : e.token = req[s].in.cookie[1]
    /\ (resp.kind = "checkAuth" /\ resp.status = 200)
          => /\ resp.in.cookie # Absent
             /\ resp.id = resp.in.cookie[1].id
             /\ \E e \in issued : e.token = resp.in.cookie[1]
             /\ \A e \in issued :
                   e.token = resp.in.cookie[1] => resp.user[1].email = e.email

C16_Witness ==
    /\ resp.kind = "checkAuth" /\ resp.status = 200
    /\ Len(users) = 2 /\ resp.id = 2
    /\ resp.user[1].email = users[2].email

\* C17: in every record the verification expiry is present exactly when the
\* verification token is, and the reset expiry exactly when the reset token is.
C17_ExpiryIffToken ==
    \A i \in Ids :
        /\ (users[i].verificationTokenExpireAt # Absent)
              <=> (users[i].verificationToken # Absent)
        /\ (users[i].resetPasswordExpireAt # Absent)
              <=> (users[i].resetPasswordToken # Absent)

\* the success answer of a handler that requests a notification
SuccessStatus(kind) == IF kind = "signup" THEN 201 ELSE 200

\* the step in which a handler's sender returns and the handler answers
MailReturned(s) == req[s].pc = "mail" /\ req'[s].pc = "idle"

\* C18: when the notification is not delivered the handler answers as it does when
\* it is (signup 201, verify-email, forgot-password and reset-password 200), and
\* the step in which the failed sender returns changes no record: the record
\* signup inserted is still there, the record verify-email verified is still
\* verified, and the reset token or new password written stays as the store has it.
C18_Answer ==
    /\ (resp.mail.type # "none" /\ ~resp.mail.delivered)
          => /\ resp.status = SuccessStatus(resp.kind)
             /\ resp.kind = "signup"
                   => (resp.id \in Ids /\ users[resp.id].email = resp.in.email[1])
             /\ resp.kind = "verifyEmail" => users[resp.id].isVerified
    /\ \A s \in Slots :
          req[s].pc = "mail" =>
              /\ req[s].kind = "signup" => users[req[s].id].email = req[s].doc.email
              /\ req[s].kind = "verifyEmail" => users[req[s].id].isVerified

C18_MailFailureSwallowed ==
    /\ []C18_Answer
    /\ [][\A s \in Slots :
             (MailReturned(s) /\ ~resp'.mail.delivered)
                => /\ users' = users
                   /\ resp'.status = SuccessStatus(req[s].kind)]_vars

C18_Witness ==
    /\ resp.kind = "forgotPassword" /\ resp.mail.type = "reset"
    /\ ~resp.mail.delivered /\ resp.status = 200
    /\ users[resp.id].resetPasswordToken = Some(resp.mail.payload)

C18_WitnessSignup ==
    /\ resp.kind = "signup" /\ ~resp.mail.delivered /\ resp.status = 201
    /\ users[resp.id].email = resp.in.email[1]

C18_WitnessVerify ==
    /\ resp.kind = "verifyEmail" /\ resp.mail.type = "welcome"
    /\ ~resp.mail.delivered /\ resp.status = 200 /\ users[resp.id].isVerified

C18_WitnessReset ==
    /\ resp.kind = "resetPassword" /\ resp.mail.type = "resetConfirmation"
    /\ ~resp.mail.delivered /\ resp.status = 200
    /\ Authenticating(users[resp.id].password) = {resp.in.password[1]}

\* C19: a signup, verify-email, forgot-password or reset-password request whose
\* store write has succeeded is eventually answered, even if the notification
\* sender never completes.
C19_AnsweredWithoutSender ==
    \A s \in Slots : (req[s].pc = "mail") ~> (req[s].pc = "idle")

\* every request whose store operation is pending is eventually past it
C19_StoreAnswers ==
    \A s \in Slots : (req[s].pc \in {"save", "find"}) ~> (req[s].pc \in {"mail", "idle"})

\* the step in which the save of a forgotPassword request is applied
ForgotSaved(s) == At(s, "forgotPassword", "save") /\ req'[s].pc = "mail"

\* what forgot-password answers: 200 for an email that has a record, 400 with no
\* notification for an email that has none
C20_Answer ==
    /\ (resp.kind = "forgotPassword" /\ resp.pre.existed)
          => (resp.status = 200 /\ resp.mail.type = "reset")
    /\ (resp.kind = "forgotPassword" /\ ~resp.pre.existed)
          => (resp.status = 400 /\ resp.mail = NoMail)
    /\ \A s \in Slots : req[s].kind = "forgotPassword" => req[s].pre.existed

\* a forgot-password for an email with no record changes no record
C20_NoRecordNoChange ==
    (AnsweredAtOnce("forgotPassword") /\ ~resp'.pre.existed) => users' = users

\* C20: forgot-password for an email that has a record leaves the record, when its
\* save is applied, with the token it generated and with the expiry of the time
\* of the request plus one hour, and answers 200; for an email with no record it
\* answers 400, changes no record and requests no notification.
C20_ForgotStoresTokenAndExpiry ==
    /\ []C20_Answer
    /\ [][C20_NoRecordNoChange]_vars
    /\ [][\A s \in Slots : ForgotSaved(s) =>
             LET u == users'[req[s].id] IN
             /\ u.resetPasswordToken = req[s].doc.resetPasswordToken
             /\ u.resetPasswordToken \notin {Absent, users[req[s].id].resetPasswordToken}
             /\ u.resetPasswordExpireAt = Some(req[s].pre.at + ResetTTL)]_vars

\* the same without the expiry
C20_ForgotStoresToken ==
    /\ []C20_Answer
    /\ [][C20_NoRecordNoChange]_vars
    /\ [][\A s \in Slots : ForgotSaved(s) =>
             LET u == users'[req[s].id] IN
             /\ u.resetPasswordToken = req[s].doc.resetPasswordToken
             /\ u.resetPasswordToken \notin {Absent, users[req[s].id].resetPasswordToken}]_vars

---------------------------------------------------------------------------
(* Steps of one handler *)

\* the step is one of the handler `kind`: it answers such a request, takes it
\* into flight or moves it on
Handles(kind) ==
    \/ resp'.kind = kind
    \/ \E s \in Slots : req'[s] # req[s] /\ kind \in {req[s].kind, req'[s].kind}

---------------------------------------------------------------------------
(* C21: reset-password never issues a session.  Every answer of reset-password,
   with status 200, 400 or 500, carries no Set-Cookie header, and no step of
   reset-password hands a session token to anyone: the tokens in circulation
   are the same before and after it, so a client that held none still holds
   none after a successful reset. *)

C21_Answer ==
    resp.kind = "resetPassword" =>
        /\ resp.status \in {200, 400, 500}
        /\ resp.cookie = NoCookie

C21_ResetIssuesNoSession ==
    /\ []C21_Answer
    /\ [][Handles("resetPassword") => jar' = jar /\ issued' = issued]_vars

\* a reset succeeded and the only token in circulation is the one signup set
C21_Witness ==
    /\ resp.kind = "resetPassword" /\ resp.status = 200
    /\ jar = SignedUpJar

C21_Witness400 == resp.kind = "resetPassword" /\ resp.status = 400

\* the 500 of a reset whose save was rejected
C21_Witness500 ==
    resp.kind = "resetPassword" /\ resp.status = 500 /\ resp.pre.err = "save"

---------------------------------------------------------------------------
(* C22: the lifetime of a session token.  The guard has answered a check-auth
   request that presented a cookie; resp.pre.at is the time it read, and each
   entry of issued with that token gives a time (in milliseconds) the token
   was signed at. *)

\* the guard let the request through to checkAuth
GuardAccepted == resp.message # "Error verifying token"

\* As claimed, to the millisecond: a token issued at t is accepted exactly at
\* the times before t + 7 days.
C22_ValidSevenDays ==
    (resp.kind = "checkAuth" /\ resp.in.cookie # Absent) =>
        \A e \in issued :
            e.token = resp.in.cookie[1] =>
                (GuardAccepted <=> resp.pre.at < e.at + JwtExpiresIn * 1000)

\* C22 (amended): a token issued at t is accepted exactly while the whole second
\* of the clock is before the whole second of t plus 7 days, that is until
\* t + 7 days rounded down to the second; a token with a bad signature is
\* rejected at any time; the cookie's maxAge plays no part.
C22_ValidSevenDaysInSeconds ==
    (resp.kind = "checkAuth" /\ resp.in.cookie # Absent) =>
        /\ resp.in.cookie[1].sig # "good" => ~GuardAccepted
        /\ \A e \in issued :
              e.token = resp.in.cookie[1] =>
                  (GuardAccepted <=>
                      resp.pre.at \div 1000 < (e.at \div 1000) + JwtExpiresIn)

\* a token is accepted after the maxAge of the cookie that carried it has passed
C22_Witness ==
    /\ resp.kind = "checkAuth" /\ resp.in.cookie # Absent /\ GuardAccepted
    /\ \E e \in issued : /\ e.token = resp.in.cookie[1]
                         /\ resp.pre.at >= e.at + CookieMaxAge

\* a token signed within a second is rejected before its 7 days are over
C22_WitnessEarly ==
    /\ resp.kind = "checkAuth" /\ resp.in.cookie # Absent /\ ~GuardAccepted
    /\ \E e \in issued : /\ e.token = resp.in.cookie[1]
                         /\ resp.pre.at < e.at + JwtExpiresIn * 1000

\* a token is rejected at the instant its 7 days are over
C22_WitnessExpired ==
    /\ resp.kind = "checkAuth" /\ resp.in.cookie # Absent /\ ~GuardAccepted
    /\ \E e \in issued : /\ e.token = resp.in.cookie[1]
                         /\ resp.pre.at = e.at + JwtExpiresIn * 1000

---------------------------------------------------------------------------
(* C23: sessions do not depend on isVerified.  A record is created unverified
   and the signup that created it answers 201 with a session cookie for it;
   a login with the right password of a stored record answers 200 with a
   session cookie, verified or not; check-auth with a valid token of a stored
   record answers 200 and returns the stored isVerified; and isVerified changes
   only in the save of a verify-email request. *)

C23_Answer ==
    /\ (resp.kind = "signup" /\ resp.status = 201) =>
          /\ resp.cookie.op = "set"
          /\ resp.cookie.token.id = resp.id
          /\ resp.id \in Ids
    /\ (resp.kind = "login" /\ ~resp.pre.missing /\ resp.pre.existed
          /\ ~resp.pre.mismatch) =>
          /\ resp.status = 200
          /\ resp.cookie.op = "set"
          /\ resp.cookie.token.id = resp.id
    /\ (resp.kind = "checkAuth" /\ resp.pre.tokenState = "ok") =>
          /\ resp.status = 200
          /\ resp.user # Absent
          /\ resp.user[1].isVerified = users[resp.id].isVerified

\* the step is the save of a verify-email request
VerifySaved(s) ==
    At(s, "verifyEmail", "save") /\ req'[s].pc = "mail"

C23_SessionsWithoutVerification ==
    /\ []C23_Answer
    /\ [][/\ \A i \in 1..Len(users') :
               i \notin Ids => ~users'[i].isVerified
          /\ \A i \in Ids :
               users'[i].isVerified # users[i].isVerified =>
                   \E s \in Slots : VerifySaved(s) /\ req[s].id = i]_vars

\* check-auth, with the token a login of the unverified record obtained, returns
\* the record with isVerified = false
C23_Witness ==
    /\ resp.kind = "checkAuth" /\ resp.status = 200
    /\ ~resp.user[1].isVerified
    /\ \E e \in issued : e.token = resp.in.cookie[1] /\ e.at > 0

\* a login of an unverified record succeeded
C23_WitnessLogin ==
    /\ resp.kind = "login" /\ resp.status = 200 /\ resp.cookie.op = "set"
    /\ ~users[resp.id].isVerified

\* a signup answered 201
C23_WitnessSignup ==
    resp.kind = "signup" /\ resp.status = 201 /\ ~users[resp.id].isVerified

---------------------------------------------------------------------------
(* C24: records are never removed.  No step shortens the collection or changes
   the email of a stored record, every session token handed out names a stored
   record, and check-auth presented with an unexpired token that signup or
   login issued is never answered 404. *)

C24_Answer ==
    /\ \A e \in issued : e.token.id \in Ids
    /\ (/\ resp.kind = "checkAuth"
        /\ resp.in.cookie # Absent
        /\ resp.pre.tokenState = "ok"
        /\ \E e \in issued : e.token = resp.in.cookie[1]) =>
          /\ resp.status # 404
          /\ resp.status = 200 => resp.id = resp.in.cookie[1].id

C24_RecordsNeverRemoved ==
    /\ []C24_Answer
    /\ [][/\ Len(users') >= Len(users)
          /\ \A i \in Ids : users'[i].email = users[i].email]_vars

\* check-auth with an issued token answers for its record after the collection
\* has grown and the record has been written to
C24_Witness ==
    /\ resp.kind = "checkAuth" /\ resp.status = 200
    /\ \E e \in issued : e.token = resp.in.cookie[1]
    /\ Len(users) > 1
    /\ resp.id = 1

---------------------------------------------------------------------------
(* C25: one response per invocation.  In every step the number of requests
   that end (a request in flight whose slot is freed, or a new request that is
   not taken into flight) equals the number of responses sent, and the
   response is of the handler that ended; when an awaited store or hashing
   call rejected, the response is the 500 of that handler's catch. *)

\* the requests in flight that the step ends
Retired == {s \in Slots : req[s].pc # "idle" /\ req'[s].pc = "idle"}

\* the step takes a new request and ends it at once
AtOnce == nreq' = nreq + 1 /\ \A s \in Slots : req'[s].pc = req[s].pc

ErrorMessage(kind) ==
    CASE kind = "signup" -> "Error creating user"
      [] kind = "verifyEmail" -> "Error verifying email"
      [] kind = "login" -> "Error logging in"
      [] kind = "forgotPassword" -> "Error in forgot password"
      [] kind = "resetPassword" -> "Error resetting password"
      [] kind = "checkAuth" -> "Error checking auth"
      [] OTHER -> ""

C25_Answer ==
    /\ resp # NoResp =>
          resp.kind \in {"signup", "verifyEmail", "login", "logout",
                         "forgotPassword", "resetPassword", "checkAuth"}
    /\ resp.pre.threw =>
          /\ resp.status = 500
          /\ resp.message = ErrorMessage(resp.kind)
          /\ resp.mail = NoMail

C25_ExactlyOneResponse ==
    /\ []C25_Answer
    /\ [][/\ Cardinality(Retired) + (IF AtOnce THEN 1 ELSE 0)
               = (IF resp' # NoResp THEN 1 ELSE 0)
          /\ \A s \in Retired : resp'.kind = req[s].kind]_vars

\* the save of a request in flight was rejected and the request got its 500
C25_Witness ==
    /\ resp.pre.threw /\ resp.pre.err = "save"
    /\ resp.status = 500

\* the hashing call was rejected
C25_WitnessHash ==
    resp.pre.threw /\ resp.pre.err = "hash" /\ resp.status = 500

\* a lookup was rejected
C25_WitnessFind ==
    resp.pre.threw /\ resp.pre.err = "find" /\ resp.kind = "checkAuth"

---------------------------------------------------------------------------
(* C26: a request with a missing required input (signup without email,
   password or name, login without email or password, forgot-password without
   email, reset-password without password) is answered 400 in the step that
   takes it, before any awaited call: the answer is the same when the store
   would reject every call, the step leaves every variable of the store as it
   was, the response sets no cookie and no mail is requested. *)

\* the request lacks an input its handler requires
MissingInput(kind, in) ==
    CASE kind = "signup" -> Absent \in {in.email, in.password, in.name}
      [] kind = "login" -> Absent \in {in.email, in.password}
      [] kind = "forgotPassword" -> in.email = Absent
      [] kind = "resetPassword" -> in.password = Absent
      [] OTHER -> FALSE

C26_Answer ==
    /\ MissingInput(resp.kind, resp.in) =>
          /\ resp.status = 400
          /\ resp.message \in {"All fields are required", "Email is required"}
          /\ ~resp.pre.threw
          /\ resp.cookie = NoCookie
          /\ resp.mail = NoMail
    /\ \A s \in Slots : ~MissingInput(req[s].kind, req[s].in)

C26_MissingInputRejected ==
    /\ []C26_Answer
    /\ [][MissingInput(resp'.kind, resp'.in) =>
            /\ AtOnce
            /\ users' = users
            /\ jar' = jar /\ issued' = issued]_vars

\* a signup without password is answered 400 although the lookup would reject
C26_Witness ==
    /\ resp.kind = "signup" /\ MissingInput(resp.kind, resp.in) /\ resp.in.password = Absent
    /\ resp.pre.err = "find" /\ resp.status = 400

C26_WitnessLogin ==
    resp.kind = "login" /\ MissingInput(resp.kind, resp.in) /\ resp.pre.err = "find"

C26_WitnessForgot ==
    resp.kind = "forgotPassword" /\ MissingInput(resp.kind, resp.in) /\ resp.pre.err = "find"

C26_WitnessReset ==
    resp.kind = "resetPassword" /\ MissingInput(resp.kind, resp.in) /\ resp.pre.err = "find"

---------------------------------------------------------------------------
(* C27: the stored password is the hash of the latest supplied one.  In every
   state the password field of every record is a bcrypt hash of cost 10, never
   the supplied text; a record gets its password field in the save of the
   signup that creates it, and the field changes afterwards only in the save
   of a reset-password for that record; either save leaves the hash of the
   password that request supplied, which authenticates that password and no
   other. *)

\* the step is the save of a signup that inserts the record
SignupSaved(s) == At(s, "signup", "save") /\ req'[s].pc = "mail"

C27_Hashed ==
    \A i \in Ids :
        /\ users[i].password.alg = "bcrypt"
        /\ users[i].password.cost = BcryptCost
        /\ Cardinality(Authenticating(users[i].password)) = 1

C27_PasswordIsLatestHash ==
    /\ []C27_Hashed
    /\ [][\A i \in 1..Len(users') :
            (i \notin Ids \/ users'[i].password # users[i].password) =>
                \E s \in Slots :
                    /\ \/ SignupSaved(s) /\ i = Len(users) + 1
                       \/ ResetSaved(s) /\ i = req[s].id
                    /\ users'[i].password
                           = bcryptHash(req[s].in.password[1], BcryptCost)
                    /\ Authenticating(users'[i].password)
                           = {req[s].in.password[1]}]_vars

\* a record that signup created holds the hash of the password a later
\* reset-password supplied, which differs from the one signup stored
C27_Witness ==
    \E r \in pwReset :
        /\ r.id \in Ids
        /\ Authenticating(users[r.id].password) = {r.new}
        /\ r.new \notin r.old
        /\ users[r.id].password.alg = "bcrypt"

---------------------------------------------------------------------------
(* C28: the expiry is compared strictly.  A verify-email or reset-password
   request goes on to its save only if, at the time it read, a record held the
   code or token with a stored expiry strictly greater than that time;
   otherwise, at now = expiry as at any later time, it is answered 400 in the
   step that takes it, and that step changes no record, so the expired token
   stays stored. *)

C28_Answer ==
    /\ (resp.kind = "verifyEmail"
          \/ (resp.kind = "resetPassword" /\ resp.in.password # Absent)) =>
          ((resp.status = 400) <=> (resp.pre.holders = {}))
    /\ \A s \in Slots :
          req[s].kind \in {"verifyEmail", "resetPassword"} =>
              /\ req[s].id \in req[s].pre.holders
              /\ req[s].id \notin req[s].pre.expired

C28_ExpiryStrict ==
    /\ []C28_Answer
    /\ [][(resp'.kind \in {"verifyEmail", "resetPassword"}
             /\ resp'.pre.holders = {}) =>
            AtOnce /\ users' = users]_vars

\* a verification code presented at the instant of its expiry is rejected and
\* is still stored
C28_Witness ==
    /\ resp.kind = "verifyEmail" /\ resp.status = 400
    /\ \E i \in resp.pre.expired :
          /\ users[i].verificationToken = resp.in.code
          /\ users[i].verificationTokenExpireAt = Some(resp.pre.at)

\* a reset token presented at the instant of its expiry
C28_WitnessReset ==
    /\ resp.kind = "resetPassword" /\ resp.status = 400
    /\ \E i \in resp.pre.expired :
          /\ users[i].resetPasswordToken = resp.in.token
          /\ users[i].resetPasswordExpireAt = Some(resp.pre.at)

\* a code presented after its expiry
C28_WitnessLater ==
    /\ resp.kind = "verifyEmail" /\ resp.status = 400
    /\ \E i \in resp.pre.expired :
          /\ users[i].verificationToken = resp.in.code
          /\ users[i].verificationTokenExpireAt[1] < resp.pre.at

---------------------------------------------------------------------------
(* C29: the save comes before the mail.  A sender is called only by a request
   that waits at its mail step, with the code or token of that request; a
   request comes to its mail step only in a step that saves, and that step
   leaves the record holding what the mail is about: the verification code
   (signup), the reset token (forgot-password), isVerified (verify-email), the
   new hash (reset-password); a request whose save was rejected is answered
   500 in that step with no mail requested. *)

\* after the step the record of request s holds what its mail is about
Persisted(s) ==
    LET id == req'[s].id
        kind == req[s].kind
    IN  /\ id \in 1..Len(users')
        /\ CASE kind = "signup" ->
                  /\ users'[id].email = req[s].doc.email
                  /\ users'[id].verificationToken = req[s].doc.verificationToken
             [] kind = "forgotPassword" ->
                  /\ users'[id].resetPasswordToken = req[s].doc.resetPasswordToken
                  /\ req[s].doc.resetPasswordToken # Absent
             [] kind = "verifyEmail" -> users'[id].isVerified
             [] kind = "resetPassword" ->
                  users'[id].password = req[s].doc.password
             [] OTHER -> FALSE

\* the mail is the one request s asked for
MailOf(s, mail) ==
    CASE mail.type = "verification" ->
            /\ req[s].kind = "signup"
            /\ mail.to = req[s].doc.email
            /\ Some(mail.payload) = req[s].doc.verificationToken
      [] mail.type = "reset" ->
            /\ req[s].kind = "forgotPassword"
            /\ Some(mail.payload) = req[s].doc.resetPasswordToken
      [] mail.type = "welcome" -> req[s].kind = "verifyEmail"
      [] mail.type = "resetConfirmation" -> req[s].kind = "resetPassword"
      [] OTHER -> FALSE

C29_Answer ==
    /\ resp.status = 500 => resp.mail = NoMail
    /\ (resp.pre.threw /\ resp.pre.err = "save") => resp.mail = NoMail

C29_SaveBeforeMail ==
    /\ []C29_Answer
    /\ [][/\ resp'.mail # NoMail =>
               \E s \in Slots :
                   req[s].pc = "mail" /\ Retired = {s} /\ MailOf(s, resp'.mail)
          /\ \A s \in Slots :
               (req'[s].pc = "mail" /\ req[s].pc # "mail") =>
                   req[s].pc = "save" /\ Persisted(s)
          /\ \A s \in Slots :
               (req[s].pc = "save" /\ req[s].kind # "login"
                  /\ req'[s].pc # "mail" /\ req'[s] # req[s]) =>
                   /\ resp'.pre.err = "save" => users' = users
                   /\ resp'.mail = NoMail
                   /\ resp'.status = 500]_vars

\* the reset mail of a forgot-password was requested and the record holds its token
C29_Witness ==
    /\ resp.kind = "forgotPassword" /\ resp.mail.type = "reset"
    /\ users[resp.id].resetPasswordToken = Some(resp.mail.payload)

\* the save of a forgot-password was rejected: no mail
C29_WitnessSaveFailed ==
    /\ resp.kind = "forgotPassword" /\ resp.pre.threw /\ resp.pre.err = "save"
    /\ resp.mail = NoMail

C29_WitnessWelcome ==
    resp.kind = "verifyEmail" /\ resp.mail.type = "welcome"
       /\ users[resp.id].isVerified

C29_WitnessVerification ==
    resp.kind = "signup" /\ resp.mail.type = "verification"

C29_WitnessConfirmation ==
    resp.kind = "resetPassword" /\ resp.mail.type = "resetConfirmation"

---------------------------------------------------------------------------
(* C30: what a handler writes.  Own(kind) are the fields the handler assigns. *)

Own(kind) ==
    CASE kind = "login" -> {"lastlogin"}
      [] kind = "verifyEmail" ->
            {"isVerified", "verificationToken", "verificationTokenExpireAt"}
      [] kind = "forgotPassword" ->
            {"resetPasswordToken", "resetPasswordExpireAt"}
      [] kind = "resetPassword" ->
            {"password", "resetPasswordToken", "resetPasswordExpireAt"}
      [] OTHER -> {}

\* every field of a stored record that the step changes is one of Own(kind) or
\* of extra, of the record matched by a request of that kind whose save the step is
WritesOnly(extra) ==
    /\ Len(users') >= Len(users)
    /\ \A i \in Ids :
         \A f \in DOMAIN users[i] :
            users'[i][f] # users[i][f] =>
                \E s \in Slots :
                    /\ req[s].pc = "save" /\ req'[s] # req[s]
                    /\ req[s].id = i
                    /\ f \in Own(req[s].kind) \cup extra

\* As claimed: login changes only lastlogin, verify-email only isVerified and
\* the two verification fields, forgot-password only the two reset fields,
\* reset-password only password and the two reset fields; every other field of
\* that record and every other record is unchanged.
C30_OnlyOwnFields == [][WritesOnly({})]_vars

\* C30 (amended): each handler changes only its own fields and updatedAt of the
\* one record it matched; email, name, createdAt, all other fields of that
\* record and all other records are unchanged.
C30_OnlyOwnFieldsAndUpdatedAt == [][WritesOnly({"updatedAt"})]_vars

\* a login has written lastlogin and updatedAt of a record whose verification
\* fields are as signup stored them
C30_Witness ==
    /\ resp.kind = "login" /\ resp.status = 200
    /\ users[resp.id].lastlogin = resp.pre.at
    /\ users[resp.id].updatedAt = resp.pre.at
    /\ users[resp.id].createdAt < resp.pre.at
    /\ users[resp.id].verificationToken # Absent

---------------------------------------------------------------------------
(* C31: the later forgot-password wins.  The save of a forgot-password leaves
   its record holding that request's token, and the token the record held
   before is then held by no record; a record has one reset-token field, so at
   most one token per record is acceptable at any time; and reset-password
   with a token that no record holds with its expiry ahead is answered 400. *)

\* the reset tokens reset-password would accept for record i at time t
Acceptable(i, t) == {tok \in ResetTokens : i \in ResetHolders(tok, t)}

C31_Answer ==
    /\ \A i \in Ids : Cardinality(Acceptable(i, now)) <= 1
    /\ (resp.kind = "resetPassword" /\ resp.pre.holders = {}
          /\ resp.in.password # Absent) =>
          resp.status = 400 /\ resp.message = "Invalid or expired token"
    /\ (resp.kind = "resetPassword" /\ resp.status = 200) =>
          resp.id \in resp.pre.holders

C31_LaterTokenOnly ==
    /\ []C31_Answer
    /\ [][\A s \in Slots :
            ForgotSaved(s) =>
                LET i == req[s].id
                    earlier == users[i].resetPasswordToken
                    later == req[s].doc.resetPasswordToken
                IN  /\ later # Absent
                    /\ users'[i].resetPasswordToken = later
                    /\ earlier # Absent =>
                          /\ earlier # later
                          /\ \A j \in 1..Len(users') :
                                users'[j].resetPasswordToken # earlier]_vars

\* reset-password with the token of the first forgot-password is rejected while
\* the record holds the token of the second one, unexpired
C31_Witness ==
    /\ resp.kind = "resetPassword" /\ resp.status = 400
    /\ resp.in.token = Some("aa11") /\ resp.in.password # Absent
    /\ ~resp.pre.spent
    /\ \E i \in Ids : /\ users[i].resetPasswordToken = Some("bb22")
                      /\ Gt(users[i].resetPasswordExpireAt, resp.pre.at)

\* the token of the second forgot-password is accepted
C31_WitnessLater ==
    /\ resp.kind = "resetPassword" /\ resp.status = 200
    /\ resp.in.token = Some("bb22")
    /\ users[resp.id].email = "a@x.com"

---------------------------------------------------------------------------
(* C32: of the reset-password requests that carry one stored token, at most one
   replaces the password: the save of a reset-password is applied only while
   no other reset-password has consumed that token since it was stored. *)

C32_OneResetPerToken ==
    [][\A s \in Slots :
          ResetSaved(s) => req[s].in.token[1] \notin spent]_vars

---------------------------------------------------------------------------
(* C33: a verify-email with code c, received while records hold c with the
   expiry ahead, is answered 200 and leaves each of those records verified,
   so the record of e is verified whichever of them it is and whatever other
   record holds c too. *)

C33_VerifiesItsRecord ==
    (resp.kind = "verifyEmail" /\ resp.pre.holders # {}) =>
        /\ resp.status = 200
        /\ \A i \in resp.pre.holders : users[i].isVerified

---------------------------------------------------------------------------
(* C34: no revocation.  The guard accepts every token that signup or login
   issued whenever it is presented before the token's own expiry, whatever
   happened since it was issued; in particular the step that answers a logout
   and the steps of a reset-password leave the guard's decision on every
   token in circulation as it was. *)

C34_Answer ==
    (/\ resp.kind = "checkAuth" /\ resp.in.cookie # Absent
     /\ \E e \in issued : e.token = resp.in.cookie[1]
     /\ resp.pre.at \div 1000 < resp.in.cookie[1].exp) =>
        GuardAccepted

C34_NoRevocation ==
    /\ []C34_Answer
    /\ [][(resp'.kind = "logout" \/ Handles("resetPassword")) =>
            \A t \in jar' :
                verifyToken(Some(t), now)'.next = verifyToken(Some(t), now).next]_vars

\* the token signup issued is accepted after a reset-password replaced the
\* password of its record
C34_Witness ==
    /\ resp.kind = "checkAuth" /\ resp.status = 200
    /\ \E e \in issued : e.token = resp.in.cookie[1] /\ e.at = 0
    /\ \E r \in pwReset :
          /\ r.id = resp.id
          /\ r.new \notin r.old
          /\ Authenticating(users[resp.id].password) = {r.new}

\* a token is accepted in the request that follows the logout that carried it
C34_WitnessLogout ==
    /\ resp.kind = "checkAuth" /\ resp.status = 200
    /\ resp.pre.after = "logout"
    /\ \E e \in issued : e.token = resp.in.cookie[1]

---------------------------------------------------------------------------
(* C35: an expired code is final.  Once a record is unverified with its
   verification expiry not ahead, and no verify-email request that matched it
   earlier is still in flight, every step leaves it so, with the same code and
   expiry: verify-email with its code is answered 400, no handler stores a new
   verification token in an existing record, and signup for its email is
   answered 400 without a write. *)

Lapsed(i) ==
    /\ i \in Ids
    /\ ~users[i].isVerified
    /\ users[i].verificationTokenExpireAt # Absent
    /\ users[i].verificationTokenExpireAt[1] <= now
    /\ \A s \in Slots : ~(req[s].kind = "verifyEmail" /\ req[s].id = i)

C35_Answer ==
    /\ (resp.kind = "signup" /\ resp.pre.existed) => resp.status = 400
    /\ (resp.kind = "verifyEmail" /\ resp.pre.holders = {}) => resp.status = 400

C35_WitnessSignup ==
    /\ resp.kind = "signup" /\ resp.status = 400
    /\ \E i \in Ids : Lapsed(i) /\ Some(users[i].email) = resp.in.email

---------------------------------------------------------------------------
(* C36: a signup that is answered 500 has written nothing: the step that
   answers it leaves the collection as it was (the steps of the request before
   it do not write), so no record holds the submitted email because of it. *)

C36_FailedSignupWritesNothing ==
    [][(resp'.kind = "signup" /\ resp'.status = 500) => users' = users]_vars

---------------------------------------------------------------------------
(* C37: a response of signup or login sets the session cookie only when its
   status is the success status, 201 for signup and 200 for login; every 400
   and every 500 response of these handlers sets no cookie. *)

C37_CookieOnlyOnSuccess ==
    (resp.kind \in {"signup", "login"} /\ resp.cookie.op = "set") =>
        resp.status = (IF resp.kind = "signup" THEN 201 ELSE 200)

---------------------------------------------------------------------------
(* C38: verify-email called with no code in the body is answered 400 and
   verifies no record, whatever the store holds: the request is answered in
   the step that receives it, with "Invalid or expired code", it writes
   nothing, and no request without a code ever waits for a save.  The records
   without a verification code are those whose expiry is cleared too, so the
   lookup for a missing code finds none. *)

C38_Answer ==
    /\ (resp.kind = "verifyEmail" /\ resp.in.code = Absent) =>
          /\ resp.status = 400
          /\ resp.message = "Invalid or expired code"
          /\ resp.mail = NoMail
    /\ \A s \in Slots : req[s].kind = "verifyEmail" => req[s].in.code # Absent
    /\ \A i \in Ids : users[i].verificationToken = Absent =>
                         users[i].verificationTokenExpireAt = Absent

C38_NoCodeVerifiesNothing ==
    /\ []C38_Answer
    /\ [][(resp'.kind = "verifyEmail" /\ resp'.in.code = Absent /\ resp' # resp) =>
            /\ AtOnce
            /\ users' = users
            /\ failedVerify' = failedVerify + 1]_vars

\* no code is sent while a record is verified with its verification fields cleared
C38_Witness ==
    /\ resp.kind = "verifyEmail" /\ resp.in.code = Absent /\ resp.status = 400
    /\ \E i \in Ids : /\ users[i].isVerified
                      /\ users[i].verificationToken = Absent
                      /\ users[i].verificationTokenExpireAt = Absent

\* no code is sent while a record waits unverified with a live code
C38_WitnessPending ==
    /\ resp.kind = "verifyEmail" /\ resp.in.code = Absent /\ resp.status = 400
    /\ \E i \in Ids : /\ ~users[i].isVerified
                      /\ users[i].verificationToken # Absent
                      /\ Gt(users[i].verificationTokenExpireAt, resp.pre.at)

\* no code is sent to an empty store
C38_WitnessEmpty ==
    /\ resp.kind = "verifyEmail" /\ resp.in.code = Absent /\ resp.status = 400
    /\ users = <<>>

---------------------------------------------------------------------------
(* C39: in the client store, driven by the responses the backend sends,
   isAuthenticated = true implies that user holds a user record: it is neither
   null nor undefined, whatever signup, verifyEmail, login, checkAuth and
   logout actions have completed. *)

C39_AuthenticatedHasUser ==
    store.isAuthenticated => store.user.is = "object"

---------------------------------------------------------------------------
(* C40: after any sequence of handleChange calls the code is an array of
   exactly six entries, each the empty string or a single digit; a call whose
   value contains a character that is not a digit leaves the code unchanged;
   a value of k > 1 digits fills the boxes 0..min(k,6)-1 with its first digits
   and empties the rest. *)

C40_SixDigitsOrEmpty ==
    /\ DOMAIN codeState = 1..6
    /\ \A i \in 1..6 : codeState[i] \in {""} \cup Digits

C40_HandleChange ==
    /\ []C40_SixDigitsOrEmpty
    /\ [][\A index \in 0..5, value \in Values :
            onChange(index, value) =>
               /\ (\E i \in 1..Len(value) : value[i] \notin Digits) =>
                      codeState' = codeState
               /\ ((\A i \in 1..Len(value) : value[i] \in Digits)
                     /\ Len(value) > 1) =>
                      \A i \in 1..6 :
                         codeState'[i] = IF i <= Len(value) THEN value[i] ELSE ""]_vars

\* a paste of three digits over boxes that were full: the first three boxes hold
\* them and the rest are empty
C40_Witness ==
    /\ codeState = <<"7", "7", "0", "", "", "">>

\* a paste of seven digits fills the six boxes with the first six
C40_WitnessLong ==
    /\ codeState = <<"7", "7", "0", "7", "7", "0">>

====
